---- MODULE Spec2Model ----
(***************************************************************************)
(* Aspire manifest -> Radius Bicep translation pipeline (package aspire).  *)
(* Strings are TLA+ strings; Go maps are functions over a finite set of    *)
(* string keys; a Go map iteration is a nondeterministic choice of order.  *)
(***************************************************************************)
EXTENDS Integers, Sequences, FiniteSets, TLC

VARIABLES file, opts, pc, manifest, kindMap, nameMap, resources, parameters,
          warnings, errors, gateway, result, err, trace,
          sanNames, sanPc, sanRes, sanOnce, sanTwice,
          parseInput, parsePc, parseCv,
          detName, detTag, detPath, detPc, detPlain, detQualified, detUpper, detLower,
          calls, heap,
          convManifest, convAppName, convPc, convSym, convIdx, convFile

vars == <<file, opts, pc, manifest, kindMap, nameMap, resources, parameters,
          warnings, errors, gateway, result, err, trace,
          sanNames, sanPc, sanRes, sanOnce, sanTwice,
          parseInput, parsePc, parseCv,
          detName, detTag, detPath, detPc, detPlain, detQualified, detUpper, detLower,
          calls, heap,
          convManifest, convAppName, convPc, convSym, convIdx, convFile>>

pipelineVars == <<file, opts, pc, manifest, kindMap, nameMap, resources, parameters,
                  warnings, errors, gateway, result, err, trace>>

sanVars == <<sanNames, sanPc, sanRes, sanOnce, sanTwice>>

parseVars == <<parseInput, parsePc, parseCv>>

detVars == <<detName, detTag, detPath, detPc, detPlain, detQualified, detUpper, detLower>>

concVars == <<calls, heap>>

convVars == <<convManifest, convAppName, convPc, convSym, convIdx, convFile>>

-----------------------------------------------------------------------------
(* Bounds *)

MaxResources == 2

MaxNames == 2

MaxNameLen == 2

MaxInputLen == 4

MaxPathDepth == 2

-----------------------------------------------------------------------------
(* String helpers (Go package strings) *)

Char(s, i) == SubSeq(s, i, i)

RECURSIVE IndexFrom(_, _, _)
IndexFrom(s, ch, i) ==
    IF i > Len(s) THEN 0
    ELSE IF Char(s, i) = ch THEN i
    ELSE IndexFrom(s, ch, i + 1)

Index(s, ch) == IndexFrom(s, ch, 1)

HasPrefix(s, p) == Len(s) >= Len(p) /\ SubSeq(s, 1, Len(p)) = p

Contains(s, sub) == \E i \in 1..(Len(s) - Len(sub) + 1) : SubSeq(s, i, i + Len(sub) - 1) = sub

RECURSIVE Split(_, _)
Split(s, sep) ==
    LET i == Index(s, sep)
    IN IF i = 0 THEN <<s>>
       ELSE <<SubSeq(s, 1, i - 1)>> \o Split(SubSeq(s, i + 1, Len(s)), sep)

Range(f) == {f[x] : x \in DOMAIN f}

Digits == {"0", "1", "2", "3", "4", "5", "6", "7", "8", "9"}

LowerLetters == {"a", "b", "c", "d", "e", "f", "g", "h", "i", "j", "k", "l", "m",
                 "n", "o", "p", "q", "r", "s", "t", "u", "v", "w", "x", "y", "z"}

UpperLetters == {"A", "B", "C", "D", "E", "F", "G", "H", "I", "J", "K", "L", "M",
                 "N", "O", "P", "Q", "R", "S", "T", "U", "V", "W", "X", "Y", "Z"}

\* %q of fmt.Sprintf for strings without characters that need escaping
Quote(s) == "\"" \o s \o "\""

-----------------------------------------------------------------------------
(* sanitizer.go *)

RECURSIVE ReplaceHyphens(_)
ReplaceHyphens(s) ==
    IF Len(s) = 0 THEN ""
    ELSE (IF Char(s, 1) = "-" THEN "_" ELSE Char(s, 1)) \o ReplaceHyphens(SubSeq(s, 2, Len(s)))

IsIdentChar(c) == c \in LowerLetters \cup UpperLetters \cup Digits \cup {"_"}

RECURSIVE RemoveInvalid(_)
RemoveInvalid(s) ==
    IF Len(s) = 0 THEN ""
    ELSE (IF IsIdentChar(Char(s, 1)) THEN Char(s, 1) ELSE "") \o RemoveInvalid(SubSeq(s, 2, Len(s)))

StartsWithDigit(s) == Len(s) > 0 /\ Char(s, 1) \in Digits

\* a sanitizer that tests for the leading digit before the invalid characters are removed
sanitize_prefixBeforeRemove(name) ==
    LET replaced == ReplaceHyphens(name)
        removed == RemoveInvalid(replaced)
        prefixed == IF StartsWithDigit(replaced) THEN "r_" \o removed ELSE removed
    IN IF prefixed = "" THEN "r_unnamed" ELSE prefixed

sanitize(name) ==
    LET replaced == ReplaceHyphens(name)
        removed == RemoveInvalid(replaced)
        prefixed == IF StartsWithDigit(removed) THEN "r_" \o removed ELSE removed
    IN IF prefixed = "" THEN "r_unnamed" ELSE prefixed

NoErr == [kind |-> "none", name1 |-> "", name2 |-> "", ident |-> "", chain |-> <<>>]

IdentifierCollision(n1, n2, id) ==
    [kind |-> "IdentifierCollision", name1 |-> n1, name2 |-> n2, ident |-> id, chain |-> <<>>]

EmptyMap == <<>>

\* the loop of sanitizeAll from position i with the maps built so far
RECURSIVE sanitizeAllFrom(_, _, _, _)
sanitizeAllFrom(names, i, res, reverse) ==
    IF i > Len(names) THEN [map |-> res, err |-> NoErr]
    ELSE LET name == names[i]
             sanitized == sanitize(name)
         IN IF sanitized \in DOMAIN reverse
            THEN [map |-> EmptyMap, err |-> IdentifierCollision(reverse[sanitized], name, sanitized)]
            ELSE sanitizeAllFrom(names, i + 1,
                                 [n \in DOMAIN res \cup {name} |-> IF n = name THEN sanitized ELSE res[n]],
                                 [s \in DOMAIN reverse \cup {sanitized} |-> IF s = sanitized THEN name ELSE reverse[s]])

\* a sanitizeAll that never looks in the reverse map
sanitizeAll_noCollisionCheck(names) ==
    [map |-> [n \in Range(names) |-> sanitize(n)], err |-> NoErr]

sanitizeAll(names) == sanitizeAllFrom(names, 1, EmptyMap, EmptyMap)

-----------------------------------------------------------------------------
(* resolver: expression parsing *)

LiteralPart(text) ==
    [isExpr |-> FALSE, literal |-> text, ResourceName |-> "", PropertyPath |-> <<>>, RawText |-> ""]

\* a parser that keeps the raw text without its braces
parseExpressionContent_rawWithoutBraces(content, rawText) ==
    LET parts == Split(content, ".")
    IN [isExpr |-> TRUE, literal |-> "", ResourceName |-> Head(parts),
        PropertyPath |-> Tail(parts), RawText |-> content]

parseExpressionContent(content, rawText) ==
    LET parts == Split(content, ".")
    IN [isExpr |-> TRUE, literal |-> "", ResourceName |-> Head(parts),
        PropertyPath |-> Tail(parts), RawText |-> rawText]

RECURSIVE parseExpressions(_)
parseExpressions(input) ==
    IF Len(input) = 0 THEN <<>>
    ELSE LET openIdx == Index(input, "{")
         IN IF openIdx = 0 THEN <<LiteralPart(input)>>
            ELSE LET before == IF openIdx > 1 THEN <<LiteralPart(SubSeq(input, 1, openIdx - 1))>> ELSE <<>>
                     closeIdx == IndexFrom(input, "}", openIdx)
                 IN IF closeIdx = 0
                    THEN before \o <<LiteralPart(SubSeq(input, openIdx, Len(input)))>>
                    ELSE before
                         \o <<parseExpressionContent(SubSeq(input, openIdx + 1, closeIdx - 1),
                                                     SubSeq(input, openIdx, closeIdx))>>
                         \o parseExpressions(SubSeq(input, closeIdx + 1, Len(input)))

hasExpressions(cv) == \E i \in DOMAIN cv : cv[i].isExpr

\* the expression parts of a string value, as a set
Expressions(value) == {p \in Range(parseExpressions(value)) : p.isExpr}

-----------------------------------------------------------------------------
(* manifest.go *)

FileNotFound == [kind |-> "FileNotFound", name1 |-> "", name2 |-> "", ident |-> "", chain |-> <<>>]

MalformedInput == [kind |-> "MalformedInput", name1 |-> "", name2 |-> "", ident |-> "", chain |-> <<>>]

MissingRequiredField(field, name) ==
    [kind |-> "MissingRequiredField", name1 |-> name, name2 |-> "", ident |-> field, chain |-> <<>>]

\* json.Unmarshal into a ManifestResource: the struct has no field for the
\* "error" key a manifest publisher writes, so the key is dropped
unmarshal(object) ==
    IF "Error" \in DOMAIN object
    THEN [k \in DOMAIN object \ {"Error"} |-> object[k]]
    ELSE object

\* the possible outcomes of parseManifest on a file; the range over
\* Resources is in any order
parseManifest(f) ==
    IF ~f.exists THEN {[manifest |-> EmptyMap, err |-> FileNotFound]}
    ELSE IF ~f.wellFormed THEN {[manifest |-> EmptyMap, err |-> MalformedInput]}
    ELSE IF ~f.hasResources THEN {[manifest |-> EmptyMap, err |-> MissingRequiredField("resources", "")]}
    ELSE LET decoded == [n \in DOMAIN f.Resources |-> unmarshal(f.Resources[n])]
             untyped == {n \in DOMAIN decoded : decoded[n].Type = ""}
         IN IF untyped # {}
            THEN {[manifest |-> EmptyMap, err |-> MissingRequiredField("type", n)] : n \in untyped}
            ELSE {[manifest |-> decoded, err |-> NoErr]}

-----------------------------------------------------------------------------
(* resolver: detectCircularReferences *)

CircularReference(cycle) ==
    [kind |-> "CircularReference", name1 |-> "", name2 |-> "", ident |-> "", chain |-> cycle]

\* a dependency scan that ignores the connection-string template
templateDeps_ignored(resource) == {}

\* lines 429-436: every expression of the resource's own connection-string template
templateDeps(resource) ==
    IF resource.ConnectionString # ""
    THEN {p.ResourceName : p \in Expressions(resource.ConnectionString)}
    ELSE {}

\* lines 439-451: the {X.connectionString} expressions of the env values
envDeps(resource) ==
    UNION {{p.ResourceName : p \in {q \in Expressions(resource.Env[k]) :
                                      q.PropertyPath = <<"connectionString">>}}
           : k \in DOMAIN resource.Env}

\* a dependency graph built from the env values alone
buildDeps_envOnly(m) == [name \in DOMAIN m |-> envDeps(m[name])]

buildDeps(m) == [name \in DOMAIN m |-> templateDeps(m[name]) \cup envDeps(m[name])]

depsOf(deps, name) == IF name \in DOMAIN deps THEN deps[name] ELSE {}

graphNodes(deps) == DOMAIN deps \cup UNION Range(deps)

RECURSIVE visit(_, _, _, _), visitDeps(_, _, _, _, _)
\* the possible outcomes [err, visited] of visit(name) with the given marks and chain
visit(deps, name, visited, chain) ==
    IF visited[name] = 2 THEN {[err |-> NoErr, visited |-> visited]}
    ELSE IF visited[name] = 1
         THEN {[err |-> CircularReference(Append(chain, name)), visited |-> visited]}
         ELSE visitDeps(deps, name, depsOf(deps, name),
                        [visited EXCEPT ![name] = 1], Append(chain, name))

\* the loop over deps[name], in any order, over the deps still to visit
visitDeps(deps, name, remaining, visited, chain) ==
    IF remaining = {} THEN {[err |-> NoErr, visited |-> [visited EXCEPT ![name] = 2]]}
    ELSE UNION {UNION {IF r.err # NoErr THEN {r}
                       ELSE visitDeps(deps, name, remaining \ {dep}, r.visited, chain)
                       : r \in visit(deps, dep, visited, chain)}
                : dep \in remaining}

\* the final loop over the names of deps, in any order
RECURSIVE visitAll(_, _, _)
visitAll(deps, remaining, visited) ==
    IF remaining = {} THEN {NoErr}
    ELSE UNION {UNION {IF r.err # NoErr THEN {r.err}
                       ELSE visitAll(deps, remaining \ {name}, r.visited)
                       : r \in visit(deps, name, visited, <<>>)}
                : name \in remaining}

\* the errors detectCircularReferences can return (NoErr for nil)
detectCircularReferences(m) ==
    LET deps == buildDeps(m)
    IN visitAll(deps, DOMAIN deps, [n \in graphNodes(deps) |-> 0])

-----------------------------------------------------------------------------
(* translator: validateExpressionReferences *)

UnknownResource(source, target) ==
    [kind |-> "UnknownResource", name1 |-> source, name2 |-> target, ident |-> "", chain |-> <<>>]

\* the values collectAllExpressionValues gathers from the env map
envValues(resource) == {resource.Env[k] : k \in DOMAIN resource.Env}

\* a collector that forgets the connection-string template
templateValues_dropped(resource) == {}

\* lines 306-308: the connection-string template, appended after the env values
templateValues(resource) ==
    IF resource.ConnectionString # "" THEN {resource.ConnectionString} ELSE {}

\* the heads of the expressions of value, in order of occurrence, that are no manifest key
unknownTargets(m, value) ==
    LET cv == parseExpressions(value)
    IN SelectSeq([i \in DOMAIN cv |-> IF cv[i].isExpr /\ cv[i].ResourceName \notin DOMAIN m
                                      THEN <<cv[i].ResourceName>> ELSE <<>>],
                 LAMBDA t : t # <<>>)

hasUnknown(m, value) == unknownTargets(m, value) # <<>>

\* a validation that is skipped: it never reports an unknown reference
validateExpressionReferences_skipped(m) == {NoErr}

\* the errors validateExpressionReferences can return (NoErr for nil): the
\* resources and the env values are ranged over in any order, the template last
validateExpressionReferences(m) ==
    LET found == UNION {
            LET envBad == {v \in envValues(m[name]) : hasUnknown(m, v)}
                tplBad == {v \in templateValues(m[name]) : hasUnknown(m, v)}
                first == IF envBad # {} THEN envBad ELSE tplBad
            IN {UnknownResource(name, unknownTargets(m, v)[1][1]) : v \in first}
            : name \in DOMAIN m}
    IN IF found = {} THEN {NoErr} ELSE found

-----------------------------------------------------------------------------
(* types.go, detector.go, classifier *)

KindContainer == "Applications.Core/containers"

KindRedisCache == "Applications.Datastores/redisCaches"

KindSQLDB == "Applications.Datastores/sqlDatabases"

KindMongoDB == "Applications.Datastores/mongoDatabases"

KindRabbitMQ == "Applications.Messaging/rabbitMQQueues"

KindGateway == "Applications.Core/gateways"

KindApplication == "Applications.Core/applications"

KindValueResource == "value"

KindParameter == "parameter"

KindUnsupported == "unsupported"

IsPortableResource(k) == k \in {KindRedisCache, KindSQLDB, KindMongoDB, KindRabbitMQ}

LowerSeq == "abcdefghijklmnopqrstuvwxyz"

UpperSeq == "ABCDEFGHIJKLMNOPQRSTUVWXYZ"

ToLowerChar(c) == IF c \in UpperLetters THEN Char(LowerSeq, Index(UpperSeq, c)) ELSE c

ToUpperChar(c) == IF c \in LowerLetters THEN Char(UpperSeq, Index(LowerSeq, c)) ELSE c

RECURSIVE ToLower(_)
ToLower(s) == IF Len(s) = 0 THEN "" ELSE ToLowerChar(Char(s, 1)) \o ToLower(SubSeq(s, 2, Len(s)))

RECURSIVE ToUpper(_)
ToUpper(s) == IF Len(s) = 0 THEN "" ELSE ToUpperChar(Char(s, 1)) \o ToUpper(SubSeq(s, 2, Len(s)))

RECURSIVE LastIndexFrom(_, _, _)
LastIndexFrom(s, ch, i) ==
    IF i < 1 THEN 0
    ELSE IF Char(s, i) = ch THEN i
    ELSE LastIndexFrom(s, ch, i - 1)

LastIndex(s, ch) == LastIndexFrom(s, ch, Len(s))

\* an extractor that removes the tag without splitting the reference on "/"
extractBaseImageName_noSplit(image) ==
    LET idx == LastIndex(image, ":")
    IN IF idx # 0 THEN SubSeq(image, 1, idx - 1) ELSE image

extractBaseImageName(image) ==
    LET parts == Split(image, "/")
        lastPart == parts[Len(parts)]
        idx == LastIndex(lastPart, ":")
    IN IF idx # 0 THEN SubSeq(lastPart, 1, idx - 1) ELSE lastPart

backingServiceTable ==
    << [prefix |-> "redis", kind |-> KindRedisCache],
       [prefix |-> "postgres", kind |-> KindSQLDB],
       [prefix |-> "mysql", kind |-> KindSQLDB],
       [prefix |-> "mariadb", kind |-> KindSQLDB],
       [prefix |-> "mongo", kind |-> KindMongoDB],
       [prefix |-> "rabbitmq", kind |-> KindRabbitMQ] >>

detectBackingService(image) ==
    LET lower == ToLower(extractBaseImageName(image))
        hits == {i \in DOMAIN backingServiceTable : HasPrefix(lower, backingServiceTable[i].prefix)}
    IN IF hits = {} THEN KindUnsupported
       ELSE backingServiceTable[CHOOSE i \in hits : \A j \in hits : i <= j].kind

\* a classifier that consults the overrides only for the types it does not recognize
classify_typeFirst(name, resource, overrides) ==
    IF HasPrefix(resource.Type, "container.v")
    THEN IF resource.Image # "" /\ detectBackingService(resource.Image) # KindUnsupported
         THEN detectBackingService(resource.Image)
         ELSE KindContainer
    ELSE IF HasPrefix(resource.Type, "project.v") THEN KindContainer
    ELSE IF resource.Type = "value.v0" THEN KindValueResource
    ELSE IF resource.Type = "parameter.v0" THEN KindParameter
    ELSE IF name \in DOMAIN overrides THEN overrides[name]
    ELSE KindUnsupported

classify(name, resource, overrides) ==
    IF name \in DOMAIN overrides THEN overrides[name]
    ELSE IF HasPrefix(resource.Type, "container.v")
         THEN IF resource.Image # "" /\ detectBackingService(resource.Image) # KindUnsupported
              THEN detectBackingService(resource.Image)
              ELSE KindContainer
    ELSE IF HasPrefix(resource.Type, "project.v") THEN KindContainer
    ELSE IF resource.Type = "value.v0" THEN KindValueResource
    ELSE IF resource.Type = "parameter.v0" THEN KindParameter
    ELSE KindUnsupported

skipWarning(name, resource) ==
    "Skipping unrecognized resource type " \o Quote(resource.Type) \o " for resource " \o Quote(name)

\* all the orders in which a Go range can visit the keys of a map
Orders(S) == {seq \in [1..Cardinality(S) -> S] : \A i, j \in 1..Cardinality(S) : i # j => seq[i] # seq[j]}

\* the kind map of classifyResources
classifiedKinds(m, overrides) == [name \in DOMAIN m |-> classify(name, m[name], overrides)]

\* the warnings classifyResources appends when it visits the resources in the given order
classifyWarnings(m, kinds, order) ==
    LET flagged == SelectSeq(order, LAMBDA n : kinds[n] = KindUnsupported)
    IN [i \in DOMAIN flagged |-> skipWarning(flagged[i], m[flagged[i]])]

isEmptyManifest(kinds) == \A n \in DOMAIN kinds : kinds[n] = KindUnsupported

NilResult == [isNil |-> TRUE, Bicep |-> <<>>, Resources |-> <<>>, Warnings |-> <<>>]

\* the context's warnings are not passed to handleEmptyManifest
handleEmptyManifest ==
    [isNil |-> FALSE, Bicep |-> <<>>, Resources |-> <<>>,
     Warnings |-> <<"No translatable resources found in manifest">>]

-----------------------------------------------------------------------------
(* string order of sort.Strings, on the characters the model uses *)

ByteOrder == "-./0123456789:ABCDEFGHIJKLMNOPQRSTUVWXYZ_abcdefghijklmnopqrstuvwxyz{}"

RECURSIVE StrLess(_, _)
StrLess(a, b) ==
    IF Len(b) = 0 THEN FALSE
    ELSE IF Len(a) = 0 THEN TRUE
    ELSE LET ra == Index(ByteOrder, Char(a, 1))
             rb == Index(ByteOrder, Char(b, 1))
         IN IF ra # rb THEN ra < rb
            ELSE StrLess(SubSeq(a, 2, Len(a)), SubSeq(b, 2, Len(b)))

\* the keys of S in ascending order (sort.Strings on distinct strings)
SortStrings(S) == CHOOSE seq \in Orders(S) : \A i \in 1..(Len(seq) - 1) : StrLess(seq[i], seq[i + 1])

\* lines 121-131: the names sanitizeIdentifiers hands to sanitizeAll
translatableNames(kinds) ==
    {n \in DOMAIN kinds : kinds[n] \notin {KindUnsupported, KindValueResource, KindParameter}}

sanitizeIdentifiers(kinds) == sanitizeAll(SortStrings(translatableNames(kinds)))

-----------------------------------------------------------------------------
(* mapper: mapContainer, mapPortableResource, mapParameter, mapResources *)
(* Entrypoint, args, volumes and bind mounts are copied through by         *)
(* mapContainer without any effect on control flow; they are left out.     *)

MissingImageMapping(name) ==
    [kind |-> "MissingImageMapping", name1 |-> name, name2 |-> "", ident |-> "", chain |-> <<>>]

\* fmt.Errorf("resource %q has no image", name)
NoImage(name) ==
    [kind |-> "NoImage", name1 |-> name, name2 |-> "", ident |-> "", chain |-> <<>>]

NilResource ==
    [isNil |-> TRUE, BicepIdentifier |-> "", RuntimeName |-> "", Kind |-> "", hasContainer |-> FALSE,
     Image |-> "", Env |-> EmptyMap, Ports |-> EmptyMap, Connections |-> EmptyMap,
     RecipeName |-> "", Routes |-> <<>>]

\* a Go map read: the zero value when the key is absent
lookup(map, key) == IF key \in DOMAIN map THEN map[key] ELSE ""

resolvedPort(binding) == IF binding.TargetPort = 0 THEN binding.Port ELSE binding.TargetPort

mapContainer(name, resource, bicepID, imageMappings) ==
    LET isProject == HasPrefix(resource.Type, "project.v")
        image == IF isProject THEN lookup(imageMappings, name) ELSE resource.Image
    IN IF isProject /\ name \notin DOMAIN imageMappings
       THEN [res |-> NilResource, err |-> MissingImageMapping(name)]
       ELSE IF image = ""
       THEN [res |-> NilResource, err |-> NoImage(name)]
       ELSE [res |-> [isNil |-> FALSE, BicepIdentifier |-> bicepID, RuntimeName |-> name,
                      Kind |-> KindContainer, hasContainer |-> TRUE, Image |-> image,
                      Env |-> [k \in DOMAIN resource.Env |->
                                  [Value |-> resource.Env[k], IsBicepInterpolation |-> FALSE]],
                      Ports |-> [b \in {x \in DOMAIN resource.Bindings :
                                          resolvedPort(resource.Bindings[x]) > 0} |->
                                  [ContainerPort |-> resolvedPort(resource.Bindings[b]),
                                   Protocol |-> ToUpper(resource.Bindings[b].Protocol),
                                   Scheme |-> resource.Bindings[b].Scheme]],
                      Connections |-> EmptyMap, RecipeName |-> "", Routes |-> <<>>],
             err |-> NoErr]

\* a mapper that leaves the recipe of a portable resource unset
mapPortableResource_noRecipe(name, kind, bicepID) ==
    [isNil |-> FALSE, BicepIdentifier |-> bicepID, RuntimeName |-> name, Kind |-> kind,
     hasContainer |-> FALSE, Image |-> "", Env |-> EmptyMap, Ports |-> EmptyMap,
     Connections |-> EmptyMap, RecipeName |-> "", Routes |-> <<>>]

mapPortableResource(name, kind, bicepID) ==
    [isNil |-> FALSE, BicepIdentifier |-> bicepID, RuntimeName |-> name, Kind |-> kind,
     hasContainer |-> FALSE, Image |-> "", Env |-> EmptyMap, Ports |-> EmptyMap,
     Connections |-> EmptyMap, RecipeName |-> "default", Routes |-> <<>>]

mapParameter(name, resource) ==
    [Name |-> sanitize(name), Type |-> "string", Description |-> "Parameter: " \o name,
     DefaultValue |-> resource.Value, Secure |-> resource.Secret]

\* the outcomes of mapResources: kindMap is ranged over in any order, the
\* first failing container ends the loop; on success every resource is mapped
mapResources(m, kinds, names, imageMappings) ==
    LET containerNames == {n \in DOMAIN kinds : kinds[n] = KindContainer}
        portableNames == {n \in DOMAIN kinds : IsPortableResource(kinds[n])}
        parameterNames == {n \in DOMAIN kinds : kinds[n] = KindParameter}
        mapped(n) == mapContainer(n, m[n], lookup(names, n), imageMappings)
        failing == {n \in containerNames : mapped(n).err # NoErr}
    IN IF failing # {}
       THEN {[resources |-> EmptyMap, parameters |-> <<>>, err |-> mapped(n).err] : n \in failing}
       ELSE {[resources |-> [n \in containerNames \cup portableNames |->
                               IF n \in containerNames THEN mapped(n).res
                               ELSE mapPortableResource(n, kinds[n], lookup(names, n))],
              parameters |-> [i \in DOMAIN order |-> mapParameter(order[i], m[order[i]])],
              err |-> NoErr] : order \in Orders(parameterNames)}

-----------------------------------------------------------------------------
(* resolver: expression resolution.  c is the part of the translation      *)
(* context the resolver reads: [manifest, kindMap, nameMap].  Every        *)
(* operator yields the set of outcomes the Go code can produce, one per    *)
(* order in which its map ranges can run.                                  *)

UnsupportedExpression(name, expression) ==
    [kind |-> "UnsupportedExpression", name1 |-> name, name2 |-> "", ident |-> expression, chain |-> <<>>]

\* fmt.Errorf("expression %s references unknown binding %q on resource %q", ...)
UnknownBinding(name, bindingName, expression) ==
    [kind |-> "UnknownBinding", name1 |-> name, name2 |-> bindingName, ident |-> expression, chain |-> <<>>]

NoConn == [present |-> FALSE, Source |-> "", IsBicepReference |-> FALSE]

Conn(source, isRef) == [present |-> TRUE, Source |-> source, IsBicepReference |-> isRef]

Resolved(value, conn) == [value |-> value, conn |-> conn, err |-> NoErr]

Failed(e) == [value |-> "", conn |-> NoConn, err |-> e]

DigitSeq == "0123456789"

RECURSIVE IntToStr(_)
IntToStr(n) ==
    IF n < 10 THEN Char(DigitSeq, n + 1)
    ELSE IntToStr(n \div 10) \o Char(DigitSeq, (n % 10) + 1)

ZeroBinding == [Scheme |-> "", Protocol |-> "", Port |-> 0, TargetPort |-> 0, External |-> FALSE]

buildBindingURL(resourceName, binding) ==
    LET scheme == IF binding.Scheme = "" THEN "http" ELSE binding.Scheme
    IN scheme \o "://" \o resourceName \o ":" \o IntToStr(resolvedPort(binding))

\* resolveContainerURL with bindingName = "": the first binding of a map range, or the zero binding
resolveContainerURL(targetName, c) ==
    LET bindings == c.manifest[targetName].Bindings
        candidates == IF DOMAIN bindings = {} THEN {ZeroBinding} ELSE Range(bindings)
    IN {Resolved(buildBindingURL(targetName, b), Conn(buildBindingURL(targetName, b), FALSE))
        : b \in candidates}

resolveBindingReference(expr, targetName, targetKind, c) ==
    LET bindingName == expr.PropertyPath[2]
        property == expr.PropertyPath[3]
        targetID == lookup(c.nameMap, targetName)
        bindings == c.manifest[targetName].Bindings
    IN IF IsPortableResource(targetKind)
       THEN {Resolved("${" \o targetID \o ".id}", Conn(targetID \o ".id", TRUE))}
       ELSE IF bindingName \notin DOMAIN bindings
       THEN {Failed(UnknownBinding(targetName, bindingName, expr.RawText))}
       ELSE IF property = "url"
       THEN {Resolved(buildBindingURL(targetName, bindings[bindingName]),
                      Conn(buildBindingURL(targetName, bindings[bindingName]), FALSE))}
       ELSE IF property = "host" THEN {Resolved(targetName, NoConn)}
       ELSE IF property = "port" THEN {Resolved(IntToStr(resolvedPort(bindings[bindingName])), NoConn)}
       ELSE {Failed(UnsupportedExpression(targetName, expr.RawText))}

\* "Return the first connection found (if any)": any entry of the map, or none
firstConnection(conns) == IF DOMAIN conns = {} THEN {NoConn} ELSE Range(conns)

RECURSIVE resolveParts(_, _, _, _, _), resolveSingleExpression(_, _, _, _),
          resolveConnectionString(_, _, _), resolveValueReference(_, _)

\* the loop of resolveCompositeValue from part i; acc is [value, interp, conns]
resolveParts(cv, i, acc, sourceResource, c) ==
    IF i > Len(cv)
    THEN {[value |-> acc.value, interp |-> acc.interp, conns |-> acc.conns, err |-> NoErr]}
    ELSE IF ~cv[i].isExpr
    THEN resolveParts(cv, i + 1, [acc EXCEPT !.value = @ \o cv[i].literal], sourceResource, c)
    ELSE LET targetName == cv[i].ResourceName
         IN IF targetName \notin DOMAIN c.kindMap
            THEN {[value |-> "", interp |-> FALSE, conns |-> EmptyMap,
                   err |-> UnknownResource(sourceResource, targetName)]}
            ELSE UNION {
                IF r.err # NoErr
                THEN {[value |-> "", interp |-> FALSE, conns |-> EmptyMap, err |-> r.err]}
                ELSE resolveParts(cv, i + 1,
                        [value |-> acc.value \o r.value,
                         interp |-> acc.interp \/ (r.conn.present /\ r.conn.IsBicepReference),
                         conns |-> IF r.conn.present
                                   THEN [t \in DOMAIN acc.conns \cup {targetName} |->
                                           IF t = targetName THEN r.conn ELSE acc.conns[t]]
                                   ELSE acc.conns],
                        sourceResource, c)
                : r \in resolveSingleExpression(cv[i], targetName, c.kindMap[targetName], c)}

resolveSingleExpression(expr, targetName, targetKind, c) ==
    LET path == expr.PropertyPath
    IN IF targetKind = KindParameter
       THEN {Resolved("${" \o sanitize(targetName) \o "}", NoConn)}
       ELSE IF path = <<"connectionString">>
       THEN resolveConnectionString(targetName, targetKind, c)
       ELSE IF Len(path) >= 3 /\ path[1] = "bindings"
       THEN resolveBindingReference(expr, targetName, targetKind, c)
       ELSE IF targetKind = KindValueResource
       THEN resolveValueReference(targetName, c)
       ELSE {Failed(UnsupportedExpression(targetName, expr.RawText))}

resolveConnectionString(targetName, targetKind, c) ==
    LET targetID == lookup(c.nameMap, targetName)
        template == c.manifest[targetName].ConnectionString
        cv == parseExpressions(template)
    IN IF IsPortableResource(targetKind)
       THEN {Resolved("${" \o targetID \o ".id}", Conn(targetID \o ".id", TRUE))}
       ELSE IF targetKind = KindValueResource
       THEN resolveValueReference(targetName, c)
       ELSE IF template # ""
       THEN IF hasExpressions(cv)
            THEN UNION {IF r.err # NoErr THEN {Failed(r.err)}
                        ELSE {Resolved(r.value, conn) : conn \in firstConnection(r.conns)}
                        : r \in resolveParts(cv, 1, [value |-> "", interp |-> FALSE, conns |-> EmptyMap],
                                             targetName, c)}
            ELSE {Resolved(template, NoConn)}
       ELSE resolveContainerURL(targetName, c)

\* a value reference that hands back the raw template, references unresolved
resolveValueReference_notInlined(targetName, c) ==
    {Resolved(IF c.manifest[targetName].ConnectionString # ""
              THEN c.manifest[targetName].ConnectionString
              ELSE c.manifest[targetName].Value, NoConn)}

resolveValueReference(targetName, c) ==
    LET template == c.manifest[targetName].ConnectionString
        cv == parseExpressions(template)
    IN IF template # ""
       THEN IF hasExpressions(cv)
            THEN UNION {IF r.err # NoErr THEN {Failed(r.err)}
                        ELSE {Resolved(r.value, conn) : conn \in firstConnection(r.conns)}
                        : r \in resolveParts(cv, 1, [value |-> "", interp |-> FALSE, conns |-> EmptyMap],
                                             targetName, c)}
            ELSE {Resolved(template, NoConn)}
       ELSE {Resolved(c.manifest[targetName].Value, NoConn)}

resolveCompositeValue(cv, sourceResource, c) ==
    resolveParts(cv, 1, [value |-> "", interp |-> FALSE, conns |-> EmptyMap], sourceResource, c)

\* the outcomes [res, errs] of the env loop of resolveExpressions for one
\* container, visiting the env keys in keyOrder from position i
RECURSIVE resolveEnvFrom(_, _, _, _, _, _)
resolveEnvFrom(name, container, keyOrder, i, st, c) ==
    IF i > Len(keyOrder) THEN {st}
    ELSE LET envKey == keyOrder[i]
             envSpec == container.Env[envKey]
             cv == parseExpressions(envSpec.Value)
             put(env, spec) == [k \in DOMAIN env \cup {envKey} |-> IF k = envKey THEN spec ELSE env[k]]
         IN IF ~hasExpressions(cv)
            THEN resolveEnvFrom(name, container, keyOrder, i + 1,
                                [st EXCEPT !.env = put(@, envSpec)], c)
            ELSE UNION {
                IF r.err # NoErr
                THEN resolveEnvFrom(name, container, keyOrder, i + 1,
                                    [st EXCEPT !.env = put(@, envSpec), !.errs = Append(@, r.err)], c)
                ELSE resolveEnvFrom(name, container, keyOrder, i + 1,
                                    [env |-> put(st.env, [Value |-> r.value, IsBicepInterpolation |-> r.interp]),
                                     conns |-> [t \in DOMAIN st.conns \cup DOMAIN r.conns |->
                                                 IF t \in DOMAIN r.conns THEN r.conns[t] ELSE st.conns[t]],
                                     errs |-> st.errs], c)
                : r \in resolveCompositeValue(cv, name, c)}

\* the outcomes [res, errs] of resolveExpressions for one container
resolveContainer(name, container, c) ==
    {[res |-> [container EXCEPT !.Env = st.env, !.Connections = st.conns], errs |-> st.errs]
     : st \in UNION {resolveEnvFrom(name, container, keyOrder, 1,
                                    [env |-> EmptyMap, conns |-> EmptyMap, errs |-> <<>>], c)
                     : keyOrder \in Orders(DOMAIN container.Env)}}

\* the loop of resolveExpressions over ctx.resources in the given order
RECURSIVE resolveFrom(_, _, _, _, _)
resolveFrom(order, i, res, errs, c) ==
    IF i > Len(order) THEN {[resources |-> res, errors |-> errs]}
    ELSE IF ~res[order[i]].hasContainer THEN resolveFrom(order, i + 1, res, errs, c)
    ELSE UNION {resolveFrom(order, i + 1, [res EXCEPT ![order[i]] = o.res], errs \o o.errs, c)
                : o \in resolveContainer(order[i], res[order[i]], c)}

\* the outcomes [resources, errors] of resolveExpressions
resolveExpressions(res, c) ==
    UNION {resolveFrom(order, 1, res, <<>>, c) : order \in Orders(DOMAIN res)}

\* a check that never finds an accumulated error
accumulatedError_ignored(errs) == NoErr

\* lines 84-87 of Translate: the first accumulated error, if any
accumulatedError(errs) == IF Len(errs) > 0 THEN errs[1] ELSE NoErr

-----------------------------------------------------------------------------
(* synthesizer, emitter, buildResult *)

\* a scan that takes every binding, external or not
externalBindings_all(resource) == DOMAIN resource.Bindings

externalBindings(resource) == {b \in DOMAIN resource.Bindings : resource.Bindings[b].External}

RECURSIVE routesFrom(_, _, _, _)
routesFrom(m, order, bindingOrder, i) ==
    IF i > Len(order) THEN <<>>
    ELSE [j \in DOMAIN bindingOrder[order[i]] |->
            [Path |-> "/",
             Destination |-> buildBindingURL(order[i], m[order[i]].Bindings[bindingOrder[order[i]][j]])]]
         \o routesFrom(m, order, bindingOrder, i + 1)

\* the gateways synthesizeGateway can build (NilResource for nil): the
\* resources and their bindings are ranged over in any order
synthesizeGateway(m) ==
    LET exposed == {n \in DOMAIN m : externalBindings(m[n]) # {}}
        allOrders == UNION {Orders(externalBindings(m[n])) : n \in exposed}
        bindingOrders == {f \in [exposed -> allOrders] :
                            \A n \in exposed : f[n] \in Orders(externalBindings(m[n]))}
    IN IF exposed = {} THEN {NilResource}
       ELSE {[isNil |-> FALSE, BicepIdentifier |-> "gateway", RuntimeName |-> "gateway",
              Kind |-> KindGateway, hasContainer |-> FALSE, Image |-> "", Env |-> EmptyMap,
              Ports |-> EmptyMap, Connections |-> EmptyMap, RecipeName |-> "",
              Routes |-> routesFrom(m, order, bo, 1)]
             : order \in Orders(exposed), bo \in bindingOrders}

\* Translate lines 90-93
withGateway(res, gw) ==
    IF gw.isNil THEN res
    ELSE [n \in DOMAIN res \cup {"gateway"} |-> IF n = "gateway" THEN gw ELSE res[n]]

withDefault(value, default) == IF value = "" THEN default ELSE value

StrLessEq(a, b) == a = b \/ StrLess(a, b)

\* a collection that is rendered in the order of the map range, unsorted
SortedBy_unsorted(S, key) == Orders(S)

\* the orders sort.Slice can leave the keys of S in, comparing with key[_]
SortedBy(S, key) ==
    {seq \in Orders(S) : \A i \in 1..(Len(seq) - 1) : StrLessEq(key[seq[i]], key[seq[i + 1]])}

Declaration(section, ident, name) == [section |-> section, ident |-> ident, name |-> name]

\* the documents emit can render, as the sequence of their declarations in
\* template order; the template itself is fixed and always executes
emit(res, params, config) ==
    LET portable == {n \in DOMAIN res : IsPortableResource(res[n].Kind)}
        containers == {n \in DOMAIN res : res[n].Kind = KindContainer}
        gateways == {n \in DOMAIN res : res[n].Kind = KindGateway}
        ident == [n \in DOMAIN res |-> res[n].BicepIdentifier]
        paramName == [i \in DOMAIN params |-> params[i].Name]
        declare(section, order) ==
            [i \in DOMAIN order |-> Declaration(section, res[order[i]].BicepIdentifier,
                                                res[order[i]].RuntimeName)]
    IN {<<Declaration("extension", "radius", ""),
          Declaration("param", "environment", config.environmentName),
          Declaration("param", "application", config.appName)>>
        \o [i \in DOMAIN po |-> Declaration("param", params[po[i]].Name, params[po[i]].DefaultValue)]
        \o <<Declaration("application", "app", "application")>>
        \o declare("portable", ro)
        \o declare("container", co)
        \o declare("gateway", go)
        : po \in SortedBy(DOMAIN params, paramName), ro \in SortedBy(portable, ident),
          co \in SortedBy(containers, ident), go \in SortedBy(gateways, ident)}

buildResult(res, warns, config, bicep, gw) ==
    LET names == SortStrings(DOMAIN res \ {"gateway"})
    IN [isNil |-> FALSE,
        Bicep |-> bicep,
        Resources |->
            [i \in DOMAIN names |->
                [OriginalName |-> names[i], BicepIdentifier |-> res[names[i]].BicepIdentifier,
                 Kind |-> res[names[i]].Kind, Synthesized |-> FALSE]]
            \o (IF gw.isNil THEN <<>>
                ELSE <<[OriginalName |-> "gateway", BicepIdentifier |-> "gateway",
                        Kind |-> KindGateway, Synthesized |-> TRUE]>>)
            \o <<[OriginalName |-> config.appName, BicepIdentifier |-> "app",
                  Kind |-> KindApplication, Synthesized |-> TRUE]>>,
        Warnings |-> warns]

\* Translate lines 34-47
buildConfig(o) ==
    [appName |-> withDefault(o.AppName, "app"),
     environmentName |-> withDefault(o.EnvironmentName, "default"),
     imageMappings |-> o.ImageMappings,
     resourceOverrides |-> o.ResourceOverrides]

-----------------------------------------------------------------------------
(* Inputs *)

Names == {"a", "b", "c-d", "c_d"}

tcpBinding == [Scheme |-> "tcp", Protocol |-> "tcp", Port |-> 6379, TargetPort |-> 0, External |-> FALSE]

httpBinding == [Scheme |-> "", Protocol |-> "tcp", Port |-> 80, TargetPort |-> 8080, External |-> TRUE]

httpsBinding == [Scheme |-> "https", Protocol |-> "tcp", Port |-> 443, TargetPort |-> 8443, External |-> TRUE]

extTcpBinding == [Scheme |-> "tcp", Protocol |-> "tcp", Port |-> 6379, TargetPort |-> 0, External |-> TRUE]

NoBindings == EmptyMap

TcpOnly == [b \in {"tcp"} |-> tcpBinding]

HttpOnly == [b \in {"http"} |-> httpBinding]

TcpAndHttps == [b \in {"tcp", "https"} |-> IF b = "tcp" THEN extTcpBinding ELSE httpsBinding]

NoEnv == EmptyMap

EnvK(value) == [k \in {"K"} |-> value]

Resource(type, image, template, env, bindings, value, secret) ==
    [Type |-> type, Image |-> image, ConnectionString |-> template, Env |-> env,
     Bindings |-> bindings, Value |-> value, Secret |-> secret]

\* the resource entries a manifest is built from
Shapes ==
    { Resource("container.v0", "app:1", "", NoEnv, HttpOnly, "", FALSE),
      Resource("container.v0", "app:1", "", EnvK("{a.connectionString}"), NoBindings, "", FALSE),
      Resource("container.v0", "app:1", "", EnvK("{b.connectionString}"), NoBindings, "", FALSE),
      Resource("container.v0", "app:1", "", EnvK("{zz.connectionString}"), NoBindings, "", FALSE),
      Resource("container.v0", "app:1", "", EnvK("u={b.bindings.tcp.url};p={b.bindings.tcp.port}"),
               NoBindings, "", FALSE),
      Resource("container.v0", "app:1", "", EnvK("{b.bindings.tcp.bogus}"), NoBindings, "", FALSE),
      Resource("container.v0", "app:1", "Host={a.bindings.tcp.host}", NoEnv, TcpOnly, "", FALSE),
      Resource("container.v0", "app:1", "", EnvK("{b.bindings.tcp.host}"), NoBindings, "", FALSE),
      Resource("container.v0", "app:1", "", EnvK("{b.value}"), NoBindings, "", FALSE),
      Resource("container.v1", "app:1", "", NoEnv, TcpAndHttps, "", FALSE),
      Resource("container.v0", "", "", NoEnv, NoBindings, "", FALSE),
      Resource("container.v0", "docker.io/Redis:7", "{a.bindings.tcp.host}:{a.bindings.tcp.port}",
               NoEnv, TcpOnly, "", FALSE),
      Resource("container.v0", "redis:7", "", NoEnv, TcpOnly, "", FALSE),
      Resource("project.v0", "", "", EnvK("{b.connectionString}"), NoBindings, "", FALSE),
      Resource("value.v0", "", "{a.connectionString}", NoEnv, NoBindings, "", FALSE),
      Resource("value.v0", "", "{b.connectionString}", NoEnv, NoBindings, "", FALSE),
      Resource("parameter.v0", "", "", NoEnv, NoBindings, "v", TRUE),
      Resource("executable.v0", "", "", NoEnv, NoBindings, "", FALSE),
      Resource("executable.v0", "", "", EnvK("{zz.connectionString}"), NoBindings, "", FALSE),
      Resource("executable.v0", "", "{b.connectionString}", NoEnv, NoBindings, "", FALSE),
      Resource("", "", "", NoEnv, NoBindings, "", FALSE) }

Manifests == UNION {[S -> Shapes] : S \in {T \in SUBSET Names : Cardinality(T) <= MaxResources}}

\* a consumer of a value resource whose template reads a backing service
valueChain ==
    [n \in {"a", "b", "c-d"} |->
        IF n = "a" THEN Resource("container.v0", "redis:7", "", NoEnv, TcpOnly, "", FALSE)
        ELSE IF n = "b" THEN Resource("value.v0", "", "{a.connectionString}", NoEnv, NoBindings, "", FALSE)
        ELSE Resource("container.v0", "app:1", "", EnvK("{b.connectionString}"), NoBindings, "", FALSE)]

\* resources that carry the names the translator itself gives out
reservedNames ==
    [n \in {"gateway", "app"} |->
        IF n = "gateway" THEN Resource("container.v0", "app:1", "", NoEnv, HttpOnly, "", FALSE)
        ELSE Resource("container.v0", "redis:7", "", NoEnv, TcpOnly, "", FALSE)]

\* a manifest in which the publisher could not generate b: the entry holds
\* an "error" key and no type
producerErrored ==
    [n \in {"a", "b"} |->
        IF n = "a" THEN Resource("container.v0", "app:1", "", NoEnv, HttpOnly, "", FALSE)
        ELSE [Type |-> "", Image |-> "", ConnectionString |-> "", Env |-> NoEnv,
              Bindings |-> NoBindings, Value |-> "", Secret |-> FALSE,
              Error |-> "This resource does not support generation in the manifest."]]

\* manifests beyond the enumerated ones
Scenarios == {valueChain, reservedNames, producerErrored}

Files ==
    { [exists |-> FALSE, wellFormed |-> FALSE, hasResources |-> FALSE, Resources |-> EmptyMap],
      [exists |-> TRUE, wellFormed |-> FALSE, hasResources |-> FALSE, Resources |-> EmptyMap],
      [exists |-> TRUE, wellFormed |-> TRUE, hasResources |-> FALSE, Resources |-> EmptyMap] }
    \cup {[exists |-> TRUE, wellFormed |-> TRUE, hasResources |-> TRUE, Resources |-> m]
          : m \in Manifests \cup Scenarios}

AllImages == [n \in Names |-> "img:1"]

Options ==
    { [AppName |-> "", EnvironmentName |-> "", ImageMappings |-> EmptyMap, ResourceOverrides |-> EmptyMap],
      [AppName |-> "", EnvironmentName |-> "", ImageMappings |-> AllImages, ResourceOverrides |-> EmptyMap],
      [AppName |-> "shop", EnvironmentName |-> "", ImageMappings |-> AllImages,
       ResourceOverrides |-> [n \in {"a"} |-> KindSQLDB]] }

NameChars == {"a", "-", "_", "1", "."}

RECURSIVE NamesOfLen(_)
NamesOfLen(n) == IF n = 0 THEN {""} ELSE {s \o ch : s \in NamesOfLen(n - 1), ch \in NameChars}

InputNames == UNION {NamesOfLen(n) : n \in 0..MaxNameLen}

\* the lists of pairwise-distinct names
NameLists ==
    UNION {{seq \in [1..n -> InputNames] : \A i, j \in 1..n : i # j => seq[i] # seq[j]} : n \in 0..MaxNames}

-----------------------------------------------------------------------------
(* Translate, one action per stage *)

context == [manifest |-> manifest, kindMap |-> kindMap, nameMap |-> nameMap]

config == buildConfig(opts)

sanIdle ==
    /\ sanNames = <<>>
    /\ sanPc = "idle"
    /\ sanRes = [map |-> EmptyMap, err |-> NoErr]
    /\ sanOnce = <<>>
    /\ sanTwice = <<>>

parseIdle ==
    /\ parseInput = ""
    /\ parsePc = "idle"
    /\ parseCv = <<>>

detIdle ==
    /\ detName = ""
    /\ detTag = ""
    /\ detPath = ""
    /\ detPc = "idle"
    /\ detPlain = ""
    /\ detQualified = ""
    /\ detUpper = ""
    /\ detLower = ""

concIdle ==
    /\ calls = <<>>
    /\ heap = <<>>

\* a BicepFile with no lists filled in
NoBicepFile ==
    [Parameters |-> <<>>, Containers |-> <<>>, DataStores |-> <<>>, Gateways |-> <<>>,
     Comments |-> <<>>, Warnings |-> <<>>]

convIdle ==
    /\ convManifest = EmptyMap
    /\ convAppName = ""
    /\ convPc = "idle"
    /\ convSym = EmptyMap
    /\ convIdx = 0
    /\ convFile = NoBicepFile

pipelineIdle ==
    /\ file = [exists |-> FALSE, wellFormed |-> FALSE, hasResources |-> FALSE, Resources |-> EmptyMap]
    /\ opts = [AppName |-> "", EnvironmentName |-> "", ImageMappings |-> EmptyMap,
               ResourceOverrides |-> EmptyMap]
    /\ pc = "idle"
    /\ manifest = EmptyMap
    /\ kindMap = EmptyMap
    /\ nameMap = EmptyMap
    /\ resources = EmptyMap
    /\ parameters = <<>>
    /\ warnings = <<>>
    /\ errors = <<>>
    /\ gateway = NilResource
    /\ result = NilResult
    /\ err = NoErr
    /\ trace = <<>>

Init ==
    /\ file \in Files
    /\ opts \in Options
    /\ pc = "parseManifest"
    /\ manifest = EmptyMap
    /\ kindMap = EmptyMap
    /\ nameMap = EmptyMap
    /\ resources = EmptyMap
    /\ parameters = <<>>
    /\ warnings = <<>>
    /\ errors = <<>>
    /\ gateway = NilResource
    /\ result = NilResult
    /\ err = NoErr
    /\ trace = <<>>
    /\ sanIdle
    /\ parseIdle
    /\ detIdle
    /\ concIdle
    /\ convIdle

\* return nil, err
Fail(e) ==
    /\ pc' = "done"
    /\ result' = NilResult
    /\ err' = e

\* fall through to the next stage
Continue(next) ==
    /\ pc' = next
    /\ UNCHANGED <<result, err>>

ParseManifest ==
    /\ pc = "parseManifest"
    /\ trace' = Append(trace, "parseManifest")
    /\ \E o \in parseManifest(file) :
         /\ manifest' = o.manifest
         /\ IF o.err # NoErr THEN Fail(o.err) ELSE Continue("detectCircularReferences")
    /\ UNCHANGED <<file, opts, kindMap, nameMap, resources, parameters, warnings, errors, gateway>>
    /\ UNCHANGED <<sanVars, parseVars, detVars, concVars, convVars>>

DetectCircularReferences ==
    /\ pc = "detectCircularReferences"
    /\ trace' = Append(trace, "detectCircularReferences")
    /\ \E e \in detectCircularReferences(manifest) :
         IF e # NoErr THEN Fail(e) ELSE Continue("validateExpressionReferences")
    /\ UNCHANGED <<file, opts, manifest, kindMap, nameMap, resources, parameters, warnings, errors, gateway>>
    /\ UNCHANGED <<sanVars, parseVars, detVars, concVars, convVars>>

ValidateExpressionReferences ==
    /\ pc = "validateExpressionReferences"
    /\ trace' = Append(trace, "validateExpressionReferences")
    /\ \E e \in validateExpressionReferences(manifest) :
         IF e # NoErr THEN Fail(e) ELSE Continue("classifyResources")
    /\ UNCHANGED <<file, opts, manifest, kindMap, nameMap, resources, parameters, warnings, errors, gateway>>
    /\ UNCHANGED <<sanVars, parseVars, detVars, concVars, convVars>>

ClassifyResources ==
    /\ pc = "classifyResources"
    /\ trace' = Append(trace, "classifyResources")
    /\ kindMap' = classifiedKinds(manifest, config.resourceOverrides)
    /\ \E order \in Orders(DOMAIN manifest) :
         warnings' = warnings \o classifyWarnings(manifest, kindMap', order)
    /\ Continue("isEmptyManifest")
    /\ UNCHANGED <<file, opts, manifest, nameMap, resources, parameters, errors, gateway>>
    /\ UNCHANGED <<sanVars, parseVars, detVars, concVars, convVars>>

HandleEmptyManifest ==
    /\ pc = "isEmptyManifest"
    /\ isEmptyManifest(kindMap)
    /\ trace' = Append(trace, "handleEmptyManifest")
    /\ pc' = "done"
    /\ result' = handleEmptyManifest
    /\ err' = NoErr
    /\ UNCHANGED <<file, opts, manifest, kindMap, nameMap, resources, parameters, warnings, errors, gateway>>
    /\ UNCHANGED <<sanVars, parseVars, detVars, concVars, convVars>>

SanitizeIdentifiers ==
    /\ pc = "isEmptyManifest"
    /\ ~isEmptyManifest(kindMap)
    /\ trace' = Append(trace, "sanitizeIdentifiers")
    /\ LET o == sanitizeIdentifiers(kindMap)
       IN IF o.err # NoErr
          THEN Fail(o.err) /\ UNCHANGED nameMap
          ELSE Continue("mapResources") /\ nameMap' = o.map
    /\ UNCHANGED <<file, opts, manifest, kindMap, resources, parameters, warnings, errors, gateway>>
    /\ UNCHANGED <<sanVars, parseVars, detVars, concVars, convVars>>

MapResources ==
    /\ pc = "mapResources"
    /\ trace' = Append(trace, "mapResources")
    /\ \E o \in mapResources(manifest, kindMap, nameMap, config.imageMappings) :
         /\ resources' = o.resources
         /\ parameters' = o.parameters
         /\ IF o.err # NoErr THEN Fail(o.err) ELSE Continue("resolveExpressions")
    /\ UNCHANGED <<file, opts, manifest, kindMap, nameMap, warnings, errors, gateway>>
    /\ UNCHANGED <<sanVars, parseVars, detVars, concVars, convVars>>

ResolveExpressions ==
    /\ pc = "resolveExpressions"
    /\ trace' = Append(trace, "resolveExpressions")
    /\ \E o \in resolveExpressions(resources, context) :
         /\ resources' = o.resources
         /\ errors' = errors \o o.errors
         /\ IF accumulatedError(errors') # NoErr
            THEN Fail(accumulatedError(errors'))
            ELSE Continue("synthesizeGateway")
    /\ UNCHANGED <<file, opts, manifest, kindMap, nameMap, parameters, warnings, gateway>>
    /\ UNCHANGED <<sanVars, parseVars, detVars, concVars, convVars>>

SynthesizeGateway ==
    /\ pc = "synthesizeGateway"
    /\ trace' = Append(trace, "synthesizeGateway")
    /\ \E gw \in synthesizeGateway(manifest) :
         /\ gateway' = gw
         /\ resources' = withGateway(resources, gw)
    /\ Continue("emit")
    /\ UNCHANGED <<file, opts, manifest, kindMap, nameMap, parameters, warnings, errors>>
    /\ UNCHANGED <<sanVars, parseVars, detVars, concVars, convVars>>

Emit ==
    /\ pc = "emit"
    /\ trace' = Append(trace, "emit")
    /\ \E bicep \in emit(resources, parameters, config) :
         result' = buildResult(resources, warnings, config, bicep, gateway)
    /\ pc' = "done"
    /\ err' = NoErr
    /\ UNCHANGED <<file, opts, manifest, kindMap, nameMap, resources, parameters, warnings, errors, gateway>>
    /\ UNCHANGED <<sanVars, parseVars, detVars, concVars, convVars>>

Next ==
    \/ ParseManifest
    \/ DetectCircularReferences
    \/ ValidateExpressionReferences
    \/ ClassifyResources
    \/ HandleEmptyManifest
    \/ SanitizeIdentifiers
    \/ MapResources
    \/ ResolveExpressions
    \/ SynthesizeGateway
    \/ Emit

Spec == Init /\ [][Next]_vars

-----------------------------------------------------------------------------
(* The sanitizer on its own *)

InitSan ==
    /\ pipelineIdle
    /\ concIdle
    /\ convIdle
    /\ sanNames \in NameLists
    /\ sanPc = "start"
    /\ sanRes = [map |-> EmptyMap, err |-> NoErr]
    /\ sanOnce = <<>>
    /\ sanTwice = <<>>
    /\ parseIdle
    /\ detIdle

SanitizeAll ==
    /\ sanPc = "start"
    /\ sanRes' = sanitizeAll(sanNames)
    /\ sanPc' = "all"
    /\ UNCHANGED <<sanNames, sanOnce, sanTwice>>
    /\ UNCHANGED <<pipelineVars, parseVars, detVars, concVars, convVars>>

Sanitize ==
    /\ sanPc = "all"
    /\ sanOnce' = [i \in DOMAIN sanNames |-> sanitize(sanNames[i])]
    /\ sanPc' = "once"
    /\ UNCHANGED <<sanNames, sanRes, sanTwice>>
    /\ UNCHANGED <<pipelineVars, parseVars, detVars, concVars, convVars>>

SanitizeAgain ==
    /\ sanPc = "once"
    /\ sanTwice' = [i \in DOMAIN sanOnce |-> sanitize(sanOnce[i])]
    /\ sanPc' = "twice"
    /\ UNCHANGED <<sanNames, sanRes, sanOnce>>
    /\ UNCHANGED <<pipelineVars, parseVars, detVars, concVars, convVars>>

NextSan ==
    \/ SanitizeAll
    \/ Sanitize
    \/ SanitizeAgain

SpecSan == InitSan /\ [][NextSan]_vars

-----------------------------------------------------------------------------
(* parseExpressions on its own *)

InputChars == {"{", "}", "a", "."}

RECURSIVE InputsOfLen(_)
InputsOfLen(n) == IF n = 0 THEN {""} ELSE {s \o ch : s \in InputsOfLen(n - 1), ch \in InputChars}

Inputs == UNION {InputsOfLen(n) : n \in 0..MaxInputLen}

InitParse ==
    /\ pipelineIdle
    /\ concIdle
    /\ convIdle
    /\ sanIdle
    /\ detIdle
    /\ parseInput \in Inputs
    /\ parsePc = "start"
    /\ parseCv = <<>>

ParseExpressions ==
    /\ parsePc = "start"
    /\ parseCv' = parseExpressions(parseInput)
    /\ parsePc' = "parsed"
    /\ UNCHANGED parseInput
    /\ UNCHANGED <<pipelineVars, sanVars, detVars, concVars, convVars>>

NextParse == ParseExpressions

SpecParse == InitParse /\ [][NextParse]_vars

-----------------------------------------------------------------------------
(* detectBackingService on its own *)

ImageNames == {"redis", "Redis", "rEdIs-stack", "postgres", "PostgreSQL", "mysql", "MariaDB",
               "mongo", "mongodb", "RabbitMQ", "app", "red", "myredis", ""}

ImageTags == {"", ":7", ":latest"}

PathSegments == {"docker.io", "localhost:5000", "bitnami", "redis"}

RECURSIVE PathsOfDepth(_)
PathsOfDepth(n) ==
    IF n = 1 THEN PathSegments
    ELSE {p \o "/" \o seg : p \in PathsOfDepth(n - 1), seg \in PathSegments}

ImagePaths == UNION {PathsOfDepth(n) : n \in 1..MaxPathDepth}

InitDetect ==
    /\ pipelineIdle
    /\ concIdle
    /\ convIdle
    /\ sanIdle
    /\ parseIdle
    /\ detName \in ImageNames
    /\ detTag \in ImageTags
    /\ detPath \in ImagePaths
    /\ detPc = "start"
    /\ detPlain = ""
    /\ detQualified = ""
    /\ detUpper = ""
    /\ detLower = ""

DetectPlain ==
    /\ detPc = "start"
    /\ detPlain' = detectBackingService(detName \o detTag)
    /\ detPc' = "plain"
    /\ UNCHANGED <<detName, detTag, detPath, detQualified, detUpper, detLower>>
    /\ UNCHANGED <<pipelineVars, sanVars, parseVars, concVars, convVars>>

DetectQualified ==
    /\ detPc = "plain"
    /\ detQualified' = detectBackingService(detPath \o "/" \o detName \o detTag)
    /\ detPc' = "qualified"
    /\ UNCHANGED <<detName, detTag, detPath, detPlain, detUpper, detLower>>
    /\ UNCHANGED <<pipelineVars, sanVars, parseVars, concVars, convVars>>

DetectCaseChanged ==
    /\ detPc = "qualified"
    /\ detUpper' = detectBackingService(ToUpper(detName \o detTag))
    /\ detLower' = detectBackingService(ToLower(detName \o detTag))
    /\ detPc' = "cased"
    /\ UNCHANGED <<detName, detTag, detPath, detPlain, detQualified>>
    /\ UNCHANGED <<pipelineVars, sanVars, parseVars, concVars, convVars>>

NextDetect ==
    \/ DetectPlain
    \/ DetectQualified
    \/ DetectCaseChanged

SpecDetect == InitDetect /\ [][NextDetect]_vars

-----------------------------------------------------------------------------
(* Concurrent invocations of Translate.  Each call has its own locals     *)
(* (calls[i]); the translation contexts live on the heap, and a call      *)
(* reaches its context through the pointer newTranslationContext returned. *)
(* The calls interleave between the stages.                                *)

MaxCalls == 2

CallIds == 1..MaxCalls

DefaultOptions ==
    [AppName |-> "", EnvironmentName |-> "", ImageMappings |-> EmptyMap, ResourceOverrides |-> EmptyMap]

\* a manifest whose two names sanitize to the same identifier
collidingNames ==
    [n \in {"c-d", "c_d"} |->
        IF n = "c-d" THEN Resource("container.v0", "app:1", "", NoEnv, HttpOnly, "", FALSE)
        ELSE Resource("container.v0", "redis:7", "", NoEnv, TcpOnly, "", FALSE)]

\* the inputs the concurrent calls are given
ConcInputs ==
    {[file |-> [exists |-> TRUE, wellFormed |-> TRUE, hasResources |-> TRUE, Resources |-> m],
      opts |-> DefaultOptions]
     : m \in {valueChain, reservedNames, producerErrored, collidingNames}}

\* memory no call has allocated yet
FreeContext ==
    [allocated |-> FALSE, manifest |-> EmptyMap, config |-> buildConfig(DefaultOptions),
     resources |-> EmptyMap, parameters |-> <<>>, warnings |-> <<>>, errors |-> <<>>,
     nameMap |-> EmptyMap, kindMap |-> EmptyMap]

\* one context kept for the whole process and handed to every call
newTranslationContext_shared(h) == 1

\* &translationContext{...}: the address of a fresh object
newTranslationContext(h) ==
    CHOOSE id \in DOMAIN h : ~h[id].allocated /\ \A j \in DOMAIN h : ~h[j].allocated => id <= j

\* the writes of a Go map: the entries of added replace or extend those of map
assign(map, added) ==
    [k \in DOMAIN map \cup DOMAIN added |-> IF k \in DOMAIN added THEN added[k] ELSE map[k]]

returns(c, res, e) == [pc |-> "done", c |-> c, gateway |-> NilResource, result |-> res, err |-> e]

proceeds(next, c, gw) == [pc |-> next, c |-> c, gateway |-> gw, result |-> NilResult, err |-> NoErr]

\* the outcomes of the stage of Translate at position p, run on context c
runStage(p, c, gw) ==
    CASE p = "detectCircularReferences" ->
           {IF e # NoErr THEN returns(c, NilResult, e)
            ELSE proceeds("validateExpressionReferences", c, gw)
            : e \in detectCircularReferences(c.manifest)}
      [] p = "validateExpressionReferences" ->
           {IF e # NoErr THEN returns(c, NilResult, e)
            ELSE proceeds("classifyResources", c, gw)
            : e \in validateExpressionReferences(c.manifest)}
      [] p = "classifyResources" ->
           LET kinds == classifiedKinds(c.manifest, c.config.resourceOverrides)
           IN {proceeds("isEmptyManifest",
                        [c EXCEPT !.kindMap = assign(@, kinds),
                                  !.warnings = @ \o classifyWarnings(c.manifest, kinds, order)], gw)
               : order \in Orders(DOMAIN c.manifest)}
      [] p = "isEmptyManifest" ->
           IF isEmptyManifest(c.kindMap) THEN {returns(c, handleEmptyManifest, NoErr)}
           ELSE LET o == sanitizeIdentifiers(c.kindMap)
                IN IF o.err # NoErr THEN {returns(c, NilResult, o.err)}
                   ELSE {proceeds("mapResources", [c EXCEPT !.nameMap = o.map], gw)}
      [] p = "mapResources" ->
           {IF o.err # NoErr THEN returns(c, NilResult, o.err)
            ELSE proceeds("resolveExpressions",
                          [c EXCEPT !.resources = assign(@, o.resources),
                                    !.parameters = @ \o o.parameters], gw)
            : o \in mapResources(c.manifest, c.kindMap, c.nameMap, c.config.imageMappings)}
      [] p = "resolveExpressions" ->
           {LET after == [c EXCEPT !.resources = o.resources, !.errors = @ \o o.errors]
            IN IF accumulatedError(after.errors) # NoErr
               THEN returns(after, NilResult, accumulatedError(after.errors))
               ELSE proceeds("synthesizeGateway", after, gw)
            : o \in resolveExpressions(c.resources, c)}
      [] p = "synthesizeGateway" ->
           {proceeds("emit", [c EXCEPT !.resources = withGateway(@, g)], g)
            : g \in synthesizeGateway(c.manifest)}
      [] p = "emit" ->
           {returns(c, buildResult(c.resources, c.warnings, c.config, bicep, gw), NoErr)
            : bicep \in emit(c.resources, c.parameters, c.config)}

Stages ==
    {"detectCircularReferences", "validateExpressionReferences", "classifyResources",
     "isEmptyManifest", "mapResources", "resolveExpressions", "synthesizeGateway", "emit"}

InitConc ==
    /\ pipelineIdle
    /\ sanIdle
    /\ parseIdle
    /\ detIdle
    /\ convIdle
    /\ \E input \in [CallIds -> ConcInputs] :
         /\ \A i, j \in CallIds : i # j => input[i] # input[j]
         /\ calls = [i \in CallIds |->
                       [file |-> input[i].file, opts |-> input[i].opts, pc |-> "parseManifest",
                        manifest |-> EmptyMap, ctx |-> 0, gateway |-> NilResource,
                        result |-> NilResult, err |-> NoErr]]
    /\ heap = [id \in CallIds |-> FreeContext]

\* Translate lines 27-31
ConcParseManifest(i) ==
    /\ calls[i].pc = "parseManifest"
    /\ \E o \in parseManifest(calls[i].file) :
         calls' = [calls EXCEPT ![i] =
                     IF o.err # NoErr THEN [@ EXCEPT !.pc = "done", !.err = o.err]
                     ELSE [@ EXCEPT !.pc = "newTranslationContext", !.manifest = o.manifest]]
    /\ UNCHANGED heap
    /\ UNCHANGED <<pipelineVars, sanVars, parseVars, detVars, convVars>>

\* Translate lines 34-50
ConcNewTranslationContext(i) ==
    /\ calls[i].pc = "newTranslationContext"
    /\ LET id == newTranslationContext(heap)
       IN /\ heap' = [heap EXCEPT ![id] =
                        [allocated |-> TRUE, manifest |-> calls[i].manifest,
                         config |-> buildConfig(calls[i].opts), resources |-> EmptyMap,
                         parameters |-> <<>>, warnings |-> <<>>, errors |-> <<>>,
                         nameMap |-> EmptyMap, kindMap |-> EmptyMap]]
          /\ calls' = [calls EXCEPT ![i].ctx = id, ![i].pc = "detectCircularReferences"]
    /\ UNCHANGED <<pipelineVars, sanVars, parseVars, detVars, convVars>>

\* Translate lines 52-105, one stage
ConcStage(i, p) ==
    /\ calls[i].pc = p
    /\ \E o \in runStage(p, heap[calls[i].ctx], calls[i].gateway) :
         /\ heap' = [heap EXCEPT ![calls[i].ctx] = o.c]
         /\ calls' = [calls EXCEPT ![i].pc = o.pc, ![i].gateway = o.gateway,
                                   ![i].result = o.result, ![i].err = o.err]
    /\ UNCHANGED <<pipelineVars, sanVars, parseVars, detVars, convVars>>

NextConc ==
    \E i \in CallIds :
        \/ ConcParseManifest(i)
        \/ ConcNewTranslationContext(i)
        \/ \E p \in Stages : ConcStage(i, p)

SpecConc == InitConc /\ [][NextConc]_vars

-----------------------------------------------------------------------------
(* Package convert: MapManifest (mapper.go).  The env values and the       *)
(* command of a container are resolved into text that no symbolic name     *)
(* and no connection depends on; they are left out of the BicepFile here.  *)

MaxConvResources == 2

categoryContainer == "container"

categoryDataStore == "datastore"

categoryParameter == "parameter"

categoryUnsupported == "unsupported"

resourceTypeMappings ==
    [t \in {"container.v0", "container.v1", "redis.server.v0", "postgres.server.v0",
            "mysql.server.v0", "parameter.v0"} |->
        IF t \in {"container.v0", "container.v1"}
        THEN [RadiusType |-> "Radius.Compute/containers@2025-08-01-preview", Category |-> categoryContainer]
        ELSE IF t = "redis.server.v0"
        THEN [RadiusType |-> "Applications.Datastores/redisCaches@2023-10-01-preview",
              Category |-> categoryDataStore]
        ELSE IF t = "postgres.server.v0"
        THEN [RadiusType |-> "Radius.Data/postgreSqlDatabases@2025-08-01-preview",
              Category |-> categoryDataStore]
        ELSE IF t = "mysql.server.v0"
        THEN [RadiusType |-> "Radius.Data/mySqlDatabases@2025-08-01-preview", Category |-> categoryDataStore]
        ELSE [RadiusType |-> "", Category |-> categoryParameter]]

LookupResourceType(aspireType) ==
    IF aspireType \in DOMAIN resourceTypeMappings THEN resourceTypeMappings[aspireType]
    ELSE [RadiusType |-> "", Category |-> categoryUnsupported]

isLetter(c) == c \in LowerLetters \cup UpperLetters

isDigit(c) == c \in Digits

\* the loop of sanitizeBicepIdentifier over the runes of s from position i
RECURSIVE sanitizeRunes(_, _)
sanitizeRunes(s, i) ==
    IF i > Len(s) THEN ""
    ELSE LET c == Char(s, i)
         IN (IF i = 1
             THEN (IF isLetter(c) \/ c = "_" THEN c ELSE "_" \o c)
             ELSE (IF isLetter(c) \/ isDigit(c) \/ c = "_" THEN c ELSE "_"))
            \o sanitizeRunes(s, i + 1)

sanitizeBicepIdentifier(name) == sanitizeRunes(ReplaceHyphens(name), 1)

\* the loop for i := 2; ; i++ of uniqueSymbolicName
RECURSIVE numberedName(_, _, _)
numberedName(name, usedNames, i) ==
    LET candidate == name \o "_" \o IntToStr(i)
    IN IF candidate \notin usedNames THEN candidate ELSE numberedName(name, usedNames, i + 1)

uniqueSymbolicName(name, usedNames) ==
    IF name \notin usedNames THEN name
    ELSE IF (name \o "Container") \notin usedNames THEN name \o "Container"
    ELSE numberedName(name, usedNames, 2)

\* the matches of \{([^}]+)\} in s from position i on, leftmost first
RECURSIVE matchesFrom(_, _)
matchesFrom(s, i) ==
    LET open == IndexFrom(s, "{", i)
        close == IF open = 0 THEN 0 ELSE IndexFrom(s, "}", open + 1)
    IN IF open = 0 \/ close = 0 THEN <<>>
       ELSE IF close = open + 1 THEN matchesFrom(s, open + 1)
       ELSE <<SubSeq(s, open + 1, close - 1)>> \o matchesFrom(s, close + 1)

ParseExpressionRefs(s) ==
    LET inner == matchesFrom(s, 1)
    IN [i \in DOMAIN inner |->
          LET dot == Index(inner[i], ".")
          IN [ResourceName |-> IF dot = 0 THEN inner[i] ELSE SubSeq(inner[i], 1, dot - 1),
              PropertyPath |-> IF dot = 0 THEN "" ELSE SubSeq(inner[i], dot + 1, Len(inner[i])),
              FullMatch |-> "{" \o inner[i] \o "}"]]

lookupSymName(resourceName, symNameMap) ==
    IF resourceName \in DOMAIN symNameMap THEN symNameMap[resourceName]
    ELSE sanitizeBicepIdentifier(resourceName)

\* the names the env values and the args of a resource refer to
referencedNames(resource) ==
    UNION {{ref.ResourceName : ref \in Range(ParseExpressionRefs(resource.Env[k]))}
           : k \in DOMAIN resource.Env}
    \cup UNION {{ref.ResourceName : ref \in Range(ParseExpressionRefs(resource.Args[i]))}
                : i \in DOMAIN resource.Args}

generateConnections(selfName, resource, m, symNameMap) ==
    LET allRefs == referencedNames(resource) \ {selfName}
        targets == {refName \in allRefs :
                      /\ refName \in DOMAIN m
                      /\ LookupResourceType(m[refName].Type).Category
                           \in {categoryContainer, categoryDataStore}}
    IN [refName \in targets |-> [Source |-> lookupSymName(refName, symNameMap) \o ".id"]]

convertMapContainer(name, resource, m, symNameMap) ==
    [SymbolicName |-> lookupSymName(name, symNameMap),
     Name |-> name,
     Connections |-> generateConnections(name, resource, m, symNameMap)]

mapBackingService(name, mapping, symNameMap) ==
    [SymbolicName |-> lookupSymName(name, symNameMap), TypeName |-> mapping.RadiusType, Name |-> name]

NoGateway == [isNil |-> TRUE, SymbolicName |-> "", Name |-> "", ContainerRef |-> "", Routes |-> <<>>]

\* the external bindings of a resource, as sort.Slice leaves them: by port
sortedRoutes(resource) ==
    LET external == {b \in DOMAIN resource.Bindings : resource.Bindings[b].External}
        order == CHOOSE seq \in Orders(external) :
                    \A i \in 1..(Len(seq) - 1) :
                        resource.Bindings[seq[i]].TargetPort <= resource.Bindings[seq[i + 1]].TargetPort
    IN [i \in DOMAIN order |-> [Path |-> "/", Port |-> resource.Bindings[order[i]].TargetPort]]

mapGateway(containerName, resource, symNameMap) ==
    LET routes == sortedRoutes(resource)
        containerSymName == lookupSymName(containerName, symNameMap)
    IN IF Len(routes) = 0 THEN NoGateway
       ELSE [isNil |-> FALSE, SymbolicName |-> containerSymName \o "Gateway",
             Name |-> containerName \o "-gateway", ContainerRef |-> containerSymName \o ".id",
             Routes |-> routes]

isSkipped(resource) == resource.Error # "" \/ resource.BuildOnly

\* the loop of computeSymbolicNames over the sorted names from position i
RECURSIVE symbolicNamesFrom(_, _, _, _, _)
symbolicNamesFrom(m, order, i, usedNames, symNameMap) ==
    IF i > Len(order) THEN symNameMap
    ELSE LET name == order[i]
             resource == m[name]
             category == LookupResourceType(resource.Type).Category
             symName == uniqueSymbolicName(sanitizeBicepIdentifier(name), usedNames)
             hasExternal == \E b \in DOMAIN resource.Bindings : resource.Bindings[b].External
             gwName == uniqueSymbolicName(symName \o "Gateway", usedNames \cup {symName})
             put(value) == [n \in DOMAIN symNameMap \cup {name} |->
                              IF n = name THEN value ELSE symNameMap[n]]
         IN IF isSkipped(resource) \/ category \notin {categoryContainer, categoryDataStore}
            THEN symbolicNamesFrom(m, order, i + 1, usedNames, put(sanitizeBicepIdentifier(name)))
            ELSE symbolicNamesFrom(m, order, i + 1,
                    usedNames \cup {symName}
                        \cup (IF category = categoryContainer /\ hasExternal THEN {gwName} ELSE {}),
                    put(symName))

computeSymbolicNames(m) == symbolicNamesFrom(m, SortStrings(DOMAIN m), 1, {"app"}, EmptyMap)

\* the file MapManifest starts from
newBicepFile(applicationName) ==
    [Parameters |-> <<[Name |-> "environment", DefaultValue |-> "", Secure |-> FALSE],
                      [Name |-> "applicationName",
                       DefaultValue |-> withDefault(applicationName, "aspire-app"), Secure |-> FALSE]>>,
     Containers |-> <<>>, DataStores |-> <<>>, Gateways |-> <<>>, Comments |-> <<>>, Warnings |-> <<>>]

BicepComment(name, type, message) == [ResourceName |-> name, ResourceType |-> type, Message |-> message]

\* one iteration of the loop of MapManifest
mapOne(f, name, m, symNameMap) ==
    LET resource == m[name]
        mapping == LookupResourceType(resource.Type)
        gw == mapGateway(name, resource, symNameMap)
    IN IF resource.Error # ""
       THEN [f EXCEPT !.Comments = Append(@, BicepComment(name, "", "manifest error")),
                      !.Warnings = Append(@, name)]
       ELSE IF resource.BuildOnly
       THEN [f EXCEPT !.Comments = Append(@, BicepComment(name, "", "build-only artifact")),
                      !.Warnings = Append(@, name)]
       ELSE IF mapping.Category = categoryContainer
       THEN [f EXCEPT !.Containers = Append(@, convertMapContainer(name, resource, m, symNameMap)),
                      !.Gateways = IF gw.isNil THEN @ ELSE Append(@, gw)]
       ELSE IF mapping.Category = categoryDataStore
       THEN [f EXCEPT !.DataStores = Append(@, mapBackingService(name, mapping, symNameMap))]
       ELSE IF mapping.Category = categoryParameter
       THEN IF resource.Secret
            THEN [f EXCEPT !.Parameters =
                    Append(@, [Name |-> sanitizeBicepIdentifier(name), DefaultValue |-> "",
                               Secure |-> TRUE])]
            ELSE f
       ELSE [f EXCEPT !.Comments =
                        Append(@, BicepComment(name, resource.Type, "manual configuration required")),
                      !.Warnings = Append(@, name)]

ConvNames == {"app", "c_d", "c-dGateway", "p"}

externalHttp == [b \in {"http"} |-> [External |-> TRUE, TargetPort |-> 8080]]

AspireResource(type, env, args, bindings, error, buildOnly, secret) ==
    [Type |-> type, Env |-> env, Args |-> args, Bindings |-> bindings, Error |-> error,
     BuildOnly |-> buildOnly, Secret |-> secret]

\* the resource entries a manifest of package convert is built from; each
\* passes the validation of Parse
ConvShapes ==
    { AspireResource("container.v0", NoEnv, <<>>, NoBindings, "", FALSE, FALSE),
      AspireResource("container.v0", NoEnv, <<>>, externalHttp, "", FALSE, FALSE),
      AspireResource("container.v0", EnvK("{c_d.bindings.http.url}"), <<>>, NoBindings, "", FALSE, FALSE),
      AspireResource("container.v0", EnvK("{p.value}"), <<"--host", "{app.bindings.tcp.host}">>,
                     NoBindings, "", FALSE, FALSE),
      AspireResource("container.v1", NoEnv, <<>>, externalHttp, "", TRUE, FALSE),
      AspireResource("redis.server.v0", NoEnv, <<>>, NoBindings, "", FALSE, FALSE),
      AspireResource("parameter.v0", NoEnv, <<>>, NoBindings, "", FALSE, TRUE),
      AspireResource("", NoEnv, <<>>, NoBindings, "no generation", FALSE, FALSE),
      AspireResource("executable.v0", NoEnv, <<>>, NoBindings, "", FALSE, FALSE) }

ConvManifests ==
    UNION {[S -> ConvShapes] : S \in {T \in SUBSET ConvNames :
                                        Cardinality(T) >= 1 /\ Cardinality(T) <= MaxConvResources}}

InitConv ==
    /\ pipelineIdle
    /\ sanIdle
    /\ parseIdle
    /\ detIdle
    /\ concIdle
    /\ convManifest \in ConvManifests
    /\ convAppName \in {"", "shop"}
    /\ convPc = "start"
    /\ convSym = EmptyMap
    /\ convIdx = 0
    /\ convFile = NoBicepFile

\* MapManifest lines 1102-1133
ConvComputeSymbolicNames ==
    /\ convPc = "start"
    /\ convFile' = newBicepFile(convAppName)
    /\ convSym' = computeSymbolicNames(convManifest)
    /\ convIdx' = 1
    /\ convPc' = "mapping"
    /\ UNCHANGED <<convManifest, convAppName>>
    /\ UNCHANGED <<pipelineVars, sanVars, parseVars, detVars, concVars>>

\* one pass of the loop over the sorted resource names
ConvMapResource ==
    /\ convPc = "mapping"
    /\ convIdx <= Cardinality(DOMAIN convManifest)
    /\ convFile' = mapOne(convFile, SortStrings(DOMAIN convManifest)[convIdx], convManifest, convSym)
    /\ convIdx' = convIdx + 1
    /\ UNCHANGED <<convManifest, convAppName, convPc, convSym>>
    /\ UNCHANGED <<pipelineVars, sanVars, parseVars, detVars, concVars>>

\* return file
ConvReturn ==
    /\ convPc = "mapping"
    /\ convIdx > Cardinality(DOMAIN convManifest)
    /\ convPc' = "done"
    /\ UNCHANGED <<convManifest, convAppName, convSym, convIdx, convFile>>
    /\ UNCHANGED <<pipelineVars, sanVars, parseVars, detVars, concVars>>

NextConv ==
    \/ ConvComputeSymbolicNames
    \/ ConvMapResource
    \/ ConvReturn

SpecConv == InitConv /\ [][NextConv]_vars

-----------------------------------------------------------------------------
(* Properties *)

\* the string values of a resource that can hold references
allValues(resource) ==
    Range(resource.Env) \cup (IF resource.ConnectionString = "" THEN {} ELSE {resource.ConnectionString})

\* the targets of the {B.connectionString} references a resource holds
connectionStringRefs(resource) ==
    UNION {{p.ResourceName : p \in {q \in Expressions(v) : q.PropertyPath = <<"connectionString">>}}
           : v \in allValues(resource)}

RECURSIVE ReachableFrom(_, _, _)
ReachableFrom(m, frontier, seen) ==
    LET next == UNION {connectionStringRefs(m[n]) : n \in frontier \cap DOMAIN m}
    IN IF next \subseteq seen THEN seen ELSE ReachableFrom(m, next \ seen, seen \cup next)

HasConnectionStringCycle(m) == \E n \in DOMAIN m : n \in ReachableFrom(m, {n}, {})

\* C1: a manifest with a cycle of {B.connectionString} references fails with
\* CircularReference right after cycle detection: no later stage runs, nothing
\* is classified or mapped, and no result is returned.
C1_CycleAbortsBeforeMapping ==
    HasConnectionStringCycle(manifest) =>
        /\ pc \in {"detectCircularReferences", "done"}
        /\ kindMap = EmptyMap
        /\ resources = EmptyMap
        /\ result = NilResult
        /\ pc = "done" =>
             /\ err.kind = "CircularReference"
             /\ trace = <<"parseManifest", "detectCircularReferences">>

C1_Witness ==
    /\ pc = "done"
    /\ err.kind = "CircularReference"
    /\ DOMAIN manifest = {"a", "b"}
    /\ connectionStringRefs(manifest["a"]) = {"b"}
    /\ connectionStringRefs(manifest["b"]) = {"a"}

onlyBindingReferences(m) ==
    /\ \E n \in DOMAIN m : \E v \in allValues(m[n]) : Expressions(v) # {}
    /\ \A n \in DOMAIN m : \A v \in allValues(m[n]) : \A p \in Expressions(v) :
         Len(p.PropertyPath) >= 3 /\ p.PropertyPath[1] = "bindings"

\* C2: a manifest whose only references are binding-derived never fails with
\* CircularReference.
C2_BindingReferencesNeverCyclic ==
    (pc = "done" /\ onlyBindingReferences(manifest)) => err.kind # "CircularReference"

\* C3: the chain of a CircularReference is the cycle itself: it starts and
\* ends with the same resource and every consecutive pair is a dependency edge.
C3_ChainIsTheCycle ==
    (pc = "done" /\ err.kind = "CircularReference") =>
        LET chain == err.chain
            deps == buildDeps(manifest)
        IN /\ Len(chain) >= 2
           /\ chain[1] = chain[Len(chain)]
           /\ \A i \in 1..(Len(chain) - 1) : chain[i + 1] \in depsOf(deps, chain[i])

\* the pairs (consumer, target) of the references whose head is no manifest key
unknownReferences(m) ==
    UNION {{<<n, p.ResourceName>> : p \in {q \in UNION {Expressions(v) : v \in allValues(m[n])} :
                                                  q.ResourceName \notin DOMAIN m}}
           : n \in DOMAIN m}

\* C4: once cycle detection has passed, a reference to a name that is no key
\* of the manifest makes Translate fail with UnknownResource naming a resource
\* that holds such a reference and the missing target; nothing is returned and
\* no later stage runs.
C4_UnknownReferenceFails ==
    (Len(trace) >= 3 /\ unknownReferences(manifest) # {}) =>
        /\ pc = "done"
        /\ err.kind = "UnknownResource"
        /\ <<err.name1, err.name2>> \in unknownReferences(manifest)
        /\ result = NilResult
        /\ trace = <<"parseManifest", "detectCircularReferences", "validateExpressionReferences">>

C4_Witness ==
    /\ pc = "done"
    /\ err = UnknownResource("a", "b")
    /\ DOMAIN manifest = {"a"}
    /\ manifest["a"].ConnectionString = "{b.connectionString}"

collides(names) == \E i, j \in DOMAIN names : i # j /\ sanitize(names[i]) = sanitize(names[j])

\* C5: on pairwise-distinct names sanitizeAll fails exactly when two names
\* sanitize to the same identifier, the error then names both and the shared
\* identifier; otherwise the map has one entry per name with distinct values.
C5_SanitizeAllCollision ==
    sanPc # "start" =>
        /\ (sanRes.err # NoErr) <=> collides(sanNames)
        /\ sanRes.err # NoErr =>
             /\ sanRes.err.kind = "IdentifierCollision"
             /\ sanRes.err.name1 # sanRes.err.name2
             /\ {sanRes.err.name1, sanRes.err.name2} \subseteq Range(sanNames)
             /\ sanitize(sanRes.err.name1) = sanRes.err.ident
             /\ sanitize(sanRes.err.name2) = sanRes.err.ident
        /\ sanRes.err = NoErr =>
             /\ DOMAIN sanRes.map = Range(sanNames)
             /\ Cardinality(DOMAIN sanRes.map) = Len(sanNames)
             /\ Cardinality(Range(sanRes.map)) = Len(sanNames)
             /\ \A n \in DOMAIN sanRes.map : sanRes.map[n] = sanitize(n)

C5_Witness ==
    /\ sanPc = "all"
    /\ sanNames = <<"a-", "a_">>
    /\ sanRes.err = IdentifierCollision("a-", "a_", "a_")

\* C6: sanitize is idempotent, also on the empty name, on names of invalid
\* characters only and on names that start with a digit.
C6_SanitizeIdempotent ==
    sanPc = "twice" => sanTwice = sanOnce

C6_Witness ==
    /\ sanPc = "twice"
    /\ sanNames = <<".", ".1">>
    /\ sanOnce = <<"r_unnamed", "r_1">>
    /\ sanTwice = sanOnce

\* Translate as a function of the parsed manifest: TRUE when it returns a result
translateSucceeds(m, o) ==
    LET cfg == buildConfig(o)
        kinds == classifiedKinds(m, cfg.resourceOverrides)
        ids == sanitizeIdentifiers(kinds)
        c == [manifest |-> m, kindMap |-> kinds, nameMap |-> ids.map]
    IN /\ detectCircularReferences(m) = {NoErr}
       /\ validateExpressionReferences(m) = {NoErr}
       /\ \/ isEmptyManifest(kinds)
          \/ /\ ids.err = NoErr
             /\ \A mo \in mapResources(m, kinds, ids.map, cfg.imageMappings) :
                  /\ mo.err = NoErr
                  /\ \A ro \in resolveExpressions(mo.resources, c) : ro.errors = <<>>

without(m, removed) == [n \in DOMAIN m \ removed |-> m[n]]

unsupportedNames(m, o) ==
    {n \in DOMAIN m : classify(n, m[n], buildConfig(o).resourceOverrides) = KindUnsupported}

\* C7: adding resources classified Unsupported to a manifest on which
\* Translate succeeds never makes it fail.
C7_UnsupportedNeverAborts ==
    pc = "done" =>
        \A added \in SUBSET unsupportedNames(manifest, opts) :
            (added # {} /\ translateSucceeds(without(manifest, added), opts)) => err = NoErr

\* C8: a parsed manifest whose resources all have an unrecognized type, with
\* no overrides, yields a result with empty Bicep text and warnings, never an error.
C8_AllUnsupportedSucceeds ==
    (/\ pc = "done"
     /\ Len(trace) >= 2
     /\ opts.ResourceOverrides = EmptyMap
     /\ \A n \in DOMAIN manifest : classify(n, manifest[n], EmptyMap) = KindUnsupported) =>
        /\ err = NoErr
        /\ ~result.isNil
        /\ result.Bicep = <<>>
        /\ result.Warnings # <<>>

\* C9: a successful result carries, for every resource classified
\* Unsupported, a warning that names the resource and its type.
C9_WarningNamesSkippedResource ==
    (pc = "done" /\ err = NoErr) =>
        \A n \in DOMAIN kindMap :
            kindMap[n] = KindUnsupported =>
                \E i \in DOMAIN result.Warnings :
                    /\ Contains(result.Warnings[i], Quote(n))
                    /\ Contains(result.Warnings[i], Quote(manifest[n].Type))

\* C10: Translate returns either a result and no error or an error and no
\* result; an error raised by any stage, the accumulated resolution errors
\* included, leaves no Bicep text, summary or warnings in what is returned.
C10_ResultXorError ==
    /\ pc # "done" => (result = NilResult /\ err = NoErr)
    /\ pc = "done" => (result.isNil <=> err # NoErr)
    /\ pc = "done" /\ result.isNil => result = NilResult
    /\ Len(errors) > 0 => (pc = "done" /\ result = NilResult /\ err = errors[1])

C10_Witness ==
    /\ pc = "done"
    /\ err.kind = "MissingImageMapping"
    /\ Len(warnings) > 0
    /\ result = NilResult

\* the text of a part: its literal, or the raw {...} text of its expression
partText(part) == IF part.isExpr THEN part.RawText ELSE part.literal

RECURSIVE rejoin(_)
rejoin(cv) == IF Len(cv) = 0 THEN "" ELSE partText(Head(cv)) \o rejoin(Tail(cv))

\* the positions of the opening braces of s that no closing brace follows
unclosedBraces(s) ==
    {i \in 1..Len(s) : Char(s, i) = "{" /\ \A j \in (i + 1)..Len(s) : Char(s, j) # "}"}

\* C11: parseExpressions is lossless: the texts of the parts, joined in order,
\* are the input; from the first opening brace that no closing brace follows,
\* the remainder is one literal part, the last; an input without an opening
\* brace has no expression part.
C11_ParseLossless ==
    parsePc = "parsed" =>
        /\ rejoin(parseCv) = parseInput
        /\ unclosedBraces(parseInput) # {} =>
              LET first == CHOOSE i \in unclosedBraces(parseInput) :
                               \A j \in unclosedBraces(parseInput) : i <= j
                  last == parseCv[Len(parseCv)]
              IN /\ ~last.isExpr
                 /\ last.literal = SubSeq(parseInput, first, Len(parseInput))
        /\ Index(parseInput, "{") = 0 => \A i \in DOMAIN parseCv : ~parseCv[i].isExpr

C11_Witness ==
    /\ parsePc = "parsed"
    /\ parseInput = "{a}{"
    /\ Len(parseCv) = 2
    /\ parseCv[1].isExpr
    /\ parseCv[2] = LiteralPart("{")

\* C12: classify follows a fixed precedence: an override for the name wins
\* whatever the type and image; otherwise container.v* gives the detector's
\* kind for the image, or the container kind when the image is empty or
\* unmatched; project.v* gives the container kind; value.v0 the value kind;
\* parameter.v0 the parameter kind; any other type Unsupported.
C12_ClassifyPrecedence ==
    (\E i \in DOMAIN trace : trace[i] = "classifyResources") =>
        /\ DOMAIN kindMap = DOMAIN manifest
        /\ \A n \in DOMAIN manifest :
             LET r == manifest[n]
                 k == kindMap[n]
                 detected == detectBackingService(r.Image)
             IN /\ n \in DOMAIN opts.ResourceOverrides => k = opts.ResourceOverrides[n]
                /\ n \notin DOMAIN opts.ResourceOverrides =>
                     /\ (HasPrefix(r.Type, "container.v") /\ r.Image # "" /\ detected # KindUnsupported)
                           => k = detected
                     /\ (HasPrefix(r.Type, "container.v") /\ (r.Image = "" \/ detected = KindUnsupported))
                           => k = KindContainer
                     /\ HasPrefix(r.Type, "project.v") => k = KindContainer
                     /\ r.Type = "value.v0" => k = KindValueResource
                     /\ r.Type = "parameter.v0" => k = KindParameter
                     /\ (/\ ~HasPrefix(r.Type, "container.v")
                         /\ ~HasPrefix(r.Type, "project.v")
                         /\ r.Type \notin {"value.v0", "parameter.v0"}) => k = KindUnsupported

C12_Witness ==
    /\ pc = "isEmptyManifest"
    /\ DOMAIN manifest = {"a", "b"}
    /\ manifest["a"].Type = "container.v1"
    /\ kindMap["a"] = KindSQLDB
    /\ manifest["b"].Image = "docker.io/Redis:7"
    /\ kindMap["b"] = KindRedisCache

\* the kind of the first table prefix the lower-cased name starts with
firstPrefixKind(name) ==
    LET lower == ToLower(name)
        hits == {i \in DOMAIN backingServiceTable : HasPrefix(lower, backingServiceTable[i].prefix)}
    IN IF hits = {} THEN KindUnsupported
       ELSE backingServiceTable[CHOOSE i \in hits : \A j \in hits : i <= j].kind

\* C13: detectBackingService depends only on the lower-cased base name of the
\* image: a reference name[:tag], the same reference behind any registry/path
\* prefix, and the same reference in upper or lower case all give the kind of
\* the first table prefix the lower-cased name starts with, or no match.
C13_DetectIgnoresPathAndCase ==
    /\ detPc \in {"plain", "qualified", "cased"} => detPlain = firstPrefixKind(detName)
    /\ detPc \in {"qualified", "cased"} => detQualified = detPlain
    /\ detPc = "cased" => (detUpper = detPlain /\ detLower = detPlain)

C13_Witness ==
    /\ detPc = "cased"
    /\ detName = "Redis"
    /\ detTag = ":7"
    /\ detPath = "localhost:5000/bitnami"
    /\ detQualified = KindRedisCache
    /\ detUpper = KindRedisCache

\* Translate returned a rendered document
emitted == pc = "done" /\ err = NoErr /\ (\E i \in DOMAIN trace : trace[i] = "emit")

\* the expressions of the env values of a manifest resource
envExpressions(resource) == UNION {Expressions(resource.Env[k]) : k \in DOMAIN resource.Env}

resolved == \E i \in DOMAIN trace : trace[i] = "resolveExpressions"

\* p is {T.bindings.<b>.<p>} with T a non-parameter manifest resource that has binding b
isBindingReference(p) ==
    /\ p.isExpr
    /\ Len(p.PropertyPath) = 3
    /\ p.PropertyPath[1] = "bindings"
    /\ p.ResourceName \in DOMAIN manifest
    /\ kindMap[p.ResourceName] # KindParameter
    /\ p.PropertyPath[2] \in DOMAIN manifest[p.ResourceName].Bindings

referencedBinding(p) == manifest[p.ResourceName].Bindings[p.PropertyPath[2]]

preferredPort(binding) == IF binding.TargetPort # 0 THEN binding.TargetPort ELSE binding.Port

bindingURL(p) ==
    referencedBinding(p).Scheme \o "://" \o p.ResourceName \o ":"
        \o IntToStr(preferredPort(referencedBinding(p)))

\* the literal a url, host or port reference stands for
bindingText(p) ==
    IF p.PropertyPath[3] = "url" THEN bindingURL(p)
    ELSE IF p.PropertyPath[3] = "host" THEN p.ResourceName
    ELSE IntToStr(preferredPort(referencedBinding(p)))

RECURSIVE bindingValue(_)
bindingValue(cv) ==
    IF Len(cv) = 0 THEN ""
    ELSE (IF Head(cv).isExpr THEN bindingText(Head(cv)) ELSE Head(cv).literal) \o bindingValue(Tail(cv))

\* C15: in the env of a container, a reference {T.bindings.<b>.<p>} to a
\* non-parameter resource T with binding b resolves, whatever the kind of T,
\* to scheme://T:port for url (with a literal connection keyed T), to the
\* name T for host, to the target port or else the port for port, and fails
\* with UnsupportedExpression for any other p.
C15_BindingReferenceResolution ==
    resolved =>
        \A C \in DOMAIN manifest : \A k \in DOMAIN manifest[C].Env :
            LET cv == parseExpressions(manifest[C].Env[k])
                refs == {cv[i] : i \in {j \in DOMAIN cv : cv[j].isExpr}}
            IN (/\ kindMap[C] = KindContainer
                /\ C \in DOMAIN resources
                /\ refs # {}
                /\ \A p \in refs : isBindingReference(p)) =>
                   IF \A p \in refs : p.PropertyPath[3] \in {"url", "host", "port"}
                   THEN /\ resources[C].Env[k].Value = bindingValue(cv)
                        /\ \A p \in refs : p.PropertyPath[3] = "url" =>
                              /\ p.ResourceName \in DOMAIN resources[C].Connections
                              /\ \E q \in refs :
                                    /\ q.ResourceName = p.ResourceName
                                    /\ q.PropertyPath[3] = "url"
                                    /\ resources[C].Connections[p.ResourceName] = Conn(bindingURL(q), FALSE)
                   ELSE \E p \in refs : \E i \in DOMAIN errors :
                            errors[i] = UnsupportedExpression(p.ResourceName, p.RawText)

\* the literal parts of a composite value, in order
literalTexts(cv) ==
    LET lits == SelectSeq(cv, LAMBDA part : ~part.isExpr)
    IN [i \in DOMAIN lits |-> lits[i].literal]

\* C16: a resolved env value keeps the literal text of the manifest value in
\* order, and is marked IsBicepInterpolation exactly when one of its resolved
\* segments is symbolic, a ${...} reference to the identifier of a backing
\* service or of a parameter; with literal segments only it is a plain literal.
C16_InterpolationIffSymbolic ==
    (resolved /\ errors = <<>>) =>
        \A C \in DOMAIN manifest \cap DOMAIN resources :
            resources[C].hasContainer =>
                \A k \in DOMAIN manifest[C].Env :
                    LET cv == parseExpressions(manifest[C].Env[k])
                        spec == resources[C].Env[k]
                    IN /\ \A i \in DOMAIN literalTexts(cv) : Contains(spec.Value, literalTexts(cv)[i])
                       /\ (Len(cv) > 0 /\ ~cv[1].isExpr) => HasPrefix(spec.Value, cv[1].literal)
                       /\ spec.IsBicepInterpolation <=> Contains(spec.Value, "${")

\* p is a url, host, port or connectionString reference
isDependencyReference(p) ==
    \/ p.PropertyPath = <<"connectionString">>
    \/ /\ Len(p.PropertyPath) = 3
       /\ p.PropertyPath[1] = "bindings"
       /\ p.PropertyPath[3] \in {"url", "host", "port"}

\* C17: after a successful Translate every emitted container C has, for each
\* url, host, port or connectionString reference of its env values to a
\* resource T that is emitted as a container or portable resource, an entry
\* for T in its connections.
C17_DependencyEdgesPreserved ==
    emitted =>
        \A C \in DOMAIN manifest \cap DOMAIN resources : \A p \in envExpressions(manifest[C]) :
            LET T == p.ResourceName
            IN (/\ resources[C].Kind = KindContainer
                /\ isDependencyReference(p)
                /\ T \in DOMAIN manifest \cap DOMAIN resources
                /\ (resources[T].Kind = KindContainer \/ IsPortableResource(resources[T].Kind))) =>
                   T \in DOMAIN resources[C].Connections

\* the pairs (resource, binding name) of the bindings flagged external
externalPairs(m) ==
    UNION {{<<n, b>> : b \in {x \in DOMAIN m[n].Bindings : m[n].Bindings[x].External}} : n \in DOMAIN m}

\* the route of an external binding; a binding without scheme counts as http
routeOf(m, pair) ==
    LET binding == m[pair[1]].Bindings[pair[2]]
        scheme == IF binding.Scheme = "" THEN "http" ELSE binding.Scheme
    IN [Path |-> "/",
        Destination |-> scheme \o "://" \o pair[1] \o ":" \o IntToStr(preferredPort(binding))]

\* C18: a successful Translate with output has a Gateway exactly when some
\* binding of a manifest resource is external; there is then one Gateway,
\* declared once, with one route per external binding, each with path "/" and
\* destination scheme://resourceName:port, the target port preferred.
C18_GatewayIffExternalBinding ==
    emitted =>
        LET gws == {n \in DOMAIN resources : resources[n].Kind = KindGateway}
            pairs == externalPairs(manifest)
            declared == {i \in DOMAIN result.Bicep : result.Bicep[i].section = "gateway"}
        IN /\ (gws # {}) <=> (pairs # {})
           /\ gateway.isNil <=> (pairs = {})
           /\ Cardinality(declared) = (IF pairs = {} THEN 0 ELSE 1)
           /\ pairs # {} =>
                /\ Cardinality(gws) = 1
                /\ \A g \in gws :
                     /\ resources[g] = gateway
                     /\ Len(gateway.Routes) = Cardinality(pairs)
                     /\ \A pair \in pairs : \E i \in DOMAIN gateway.Routes :
                          gateway.Routes[i] = routeOf(manifest, pair)
                     /\ \A i \in DOMAIN gateway.Routes : \E pair \in pairs :
                          gateway.Routes[i] = routeOf(manifest, pair)

C18_Witness ==
    /\ emitted
    /\ DOMAIN manifest = {"a", "b"}
    /\ manifest["a"].Bindings = TcpAndHttps
    /\ manifest["b"].Bindings = TcpOnly
    /\ Len(gateway.Routes) = 2
    /\ gateway.Routes[1] = [Path |-> "/", Destination |-> "https://a:8443"]
    /\ gateway.Routes[2] = [Path |-> "/", Destination |-> "tcp://a:6379"]

\* the place of a section in the document
sectionRank(section) ==
    CASE section = "extension" -> 1
      [] section = "param" -> 2
      [] section = "application" -> 3
      [] section = "portable" -> 4
      [] section = "container" -> 5
      [] section = "gateway" -> 6

\* C19: the emitted document is, in this order: the extension declaration,
\* the environment then the application parameter, the user parameters in
\* ascending name order, the Application resource, the backing-service
\* resources in strictly ascending identifier order, the containers in
\* strictly ascending identifier order, and the Gateway last if there is one.
C19_SectionOrder ==
    emitted =>
        LET d == result.Bicep
        IN /\ Len(d) >= 4
           /\ d[1].section = "extension"
           /\ d[2].section = "param" /\ d[2].ident = "environment"
           /\ d[3].section = "param" /\ d[3].ident = "application"
           /\ \A i, j \in DOMAIN d : i < j => sectionRank(d[i].section) <= sectionRank(d[j].section)
           /\ Cardinality({i \in DOMAIN d : d[i].section = "extension"}) = 1
           /\ Cardinality({i \in DOMAIN d : d[i].section = "application"}) = 1
           /\ Cardinality({i \in DOMAIN d : d[i].section = "gateway"}) = (IF gateway.isNil THEN 0 ELSE 1)
           /\ Cardinality({i \in DOMAIN d : d[i].section = "param"}) = 2 + Len(parameters)
           /\ \A i \in 4..(Len(d) - 1) :
                /\ (d[i].section = "param" /\ d[i + 1].section = "param")
                      => StrLessEq(d[i].ident, d[i + 1].ident)
                /\ (d[i].section = "portable" /\ d[i + 1].section = "portable")
                      => StrLess(d[i].ident, d[i + 1].ident)
                /\ (d[i].section = "container" /\ d[i + 1].section = "container")
                      => StrLess(d[i].ident, d[i + 1].ident)
           /\ \A n \in DOMAIN resources : \E i \in DOMAIN d :
                /\ d[i].ident = resources[n].BicepIdentifier
                /\ d[i].section = (IF IsPortableResource(resources[n].Kind) THEN "portable"
                                   ELSE IF resources[n].Kind = KindContainer THEN "container"
                                   ELSE "gateway")

C19_Witness ==
    /\ emitted
    /\ Len(result.Bicep) = 7
    /\ result.Bicep[5] = Declaration("container", "a", "a")
    /\ result.Bicep[6] = Declaration("container", "c_d", "c-d")
    /\ result.Bicep[7] = Declaration("gateway", "gateway", "gateway")

\* what a run of Translate returns, as far as the claim compares runs
failure(e) == [bicep |-> <<>>, connections |-> EmptyMap, routes |-> <<>>, err |-> e]

\* the outcomes of Translate from resolveExpressions on
resolveOutcomes(m, cfg, c, mapped) ==
    UNION {IF Len(ro.errors) > 0 THEN {failure(ro.errors[1])}
           ELSE UNION {{[bicep |-> b,
                         connections |-> [n \in DOMAIN ro.resources |-> ro.resources[n].Connections],
                         routes |-> gw.Routes,
                         err |-> NoErr]
                        : b \in emit(withGateway(ro.resources, gw), mapped.parameters, cfg)}
                       : gw \in synthesizeGateway(m)}
           : ro \in resolveExpressions(mapped.resources, c)}

\* the outcomes of Translate from classifyResources on
classifyOutcomes(m, cfg) ==
    LET kinds == classifiedKinds(m, cfg.resourceOverrides)
        ids == sanitizeIdentifiers(kinds)
        c == [manifest |-> m, kindMap |-> kinds, nameMap |-> ids.map]
    IN IF isEmptyManifest(kinds) THEN {failure(NoErr)}
       ELSE IF ids.err # NoErr THEN {failure(ids.err)}
       ELSE UNION {IF mo.err # NoErr THEN {failure(mo.err)} ELSE resolveOutcomes(m, cfg, c, mo)
                   : mo \in mapResources(m, kinds, ids.map, cfg.imageMappings)}

\* every outcome Translate can return for a file and options, one per
\* combination of the orders in which its map ranges can run
translateOutcomes(f, o) ==
    UNION {IF po.err # NoErr THEN {failure(po.err)}
           ELSE LET m == po.manifest
                    cycles == detectCircularReferences(m)
                    unknown == validateExpressionReferences(m)
                IN {failure(e) : e \in cycles \ {NoErr}}
                   \cup (IF NoErr \notin cycles THEN {}
                         ELSE {failure(e) : e \in unknown \ {NoErr}}
                              \cup (IF NoErr \notin unknown THEN {}
                                    ELSE classifyOutcomes(m, buildConfig(o))))
           : po \in parseManifest(f)}

\* C20: Translate is a function of its input: the manifest and options of a
\* finished run admit one outcome only, the same Bicep text, connections,
\* gateway routes and error whatever the order of the map ranges.
C20_Deterministic ==
    pc = "done" => Cardinality(translateOutcomes(file, opts)) = 1

-----------------------------------------------------------------------------
(* Connection keys *)

\* C29: after a successful Translate every key of every container's
\* connections map is the manifest name of a resource that is itself emitted,
\* as a container or as a backing service; no connection is keyed by an
\* inlined value resource, a parameter or an Unsupported resource.
C29_ConnectionKeysAreEmitted ==
    emitted =>
        \A C \in DOMAIN resources : \A T \in DOMAIN resources[C].Connections :
            /\ T \in DOMAIN kindMap
            /\ kindMap[T] = KindContainer \/ IsPortableResource(kindMap[T])
            /\ T \in DOMAIN resources
            /\ resources[T].Kind = kindMap[T]
            /\ \E i \in DOMAIN result.Resources : result.Resources[i].OriginalName = T

-----------------------------------------------------------------------------
(* Declared identifiers *)

\* the identifiers a rendered document declares: the environment and
\* application parameters, the user parameters, app, the resources, the gateway
declared(bicep) == {i \in DOMAIN bicep : bicep[i].section # "extension"}

\* the manifest names that are given an identifier, parameters included
identifiedNames(kinds) ==
    {n \in DOMAIN kinds : kinds[n] # KindUnsupported /\ kinds[n] # KindValueResource}

\* C27: in every successful Translate output the declared Bicep identifiers
\* (environment, application, app, the user parameters, the resources and the
\* gateway) are pairwise distinct; two manifest names of a translatable kind,
\* parameters included, that yield the same identifier make Translate fail
\* with IdentifierCollision rather than succeed.
C27_DeclaredIdentifiersDistinct ==
    /\ emitted =>
         \A i, j \in declared(result.Bicep) :
            i # j => result.Bicep[i].ident # result.Bicep[j].ident
    /\ (pc = "done" /\ DOMAIN kindMap # {}) =>
         \A n1, n2 \in identifiedNames(kindMap) :
            (n1 # n2 /\ sanitize(n1) = sanitize(n2)) => err # NoErr

-----------------------------------------------------------------------------
(* Stage order *)

\* the stages of Translate in the order the claim gives them; the fifth is
\* the empty-manifest return or identifier-collision detection
stageOrder ==
    <<"parseManifest", "detectCircularReferences", "validateExpressionReferences",
      "classifyResources", "sanitizeIdentifiers", "mapResources", "resolveExpressions",
      "synthesizeGateway", "emit">>

stageErrors ==
    <<{"FileNotFound", "MalformedInput", "MissingRequiredField"}, {"CircularReference"},
      {"UnknownResource"}, {}, {"IdentifierCollision"}, {"MissingImageMapping", "NoImage"},
      {"UnsupportedExpression", "UnknownBinding"}, {}, {}>>

parseFails(f) ==
    \/ ~f.exists
    \/ ~f.wellFormed
    \/ ~f.hasResources
    \/ \E n \in DOMAIN f.Resources : f.Resources[n].Type = ""

\* the earliest stage that has a reason to fail on file f with options o:
\* 0 when the empty-manifest check returns, 7 when only expression
\* resolution can still fail
earliestFailure(f, o) ==
    LET m == [n \in DOMAIN f.Resources |-> unmarshal(f.Resources[n])]
        cfg == buildConfig(o)
        kinds == classifiedKinds(m, cfg.resourceOverrides)
        named == SortStrings(translatableNames(kinds))
    IN IF parseFails(f) THEN 1
       ELSE IF detectCircularReferences(m) # {NoErr} THEN 2
       ELSE IF unknownReferences(m) # {} THEN 3
       ELSE IF \A n \in DOMAIN kinds : kinds[n] = KindUnsupported THEN 0
       ELSE IF collides(named) THEN 5
       ELSE IF \E n \in DOMAIN kinds :
                 /\ kinds[n] = KindContainer
                 /\ mapContainer(n, m[n], sanitize(n), cfg.imageMappings).err # NoErr THEN 6
       ELSE 7

-----------------------------------------------------------------------------
(* Termination of expression resolution *)

\* cycle detection has returned nil
cyclesChecked == Len(trace) >= 2 /\ ~(pc = "done" /\ Len(trace) = 2)

\* the resources whose resolution resolveConnectionString(T) or
\* resolveValueReference(T) calls itself on: the heads of the expressions of
\* T's template that resolveSingleExpression hands back to one of the two
descents(m, kinds, T) ==
    IF m[T].ConnectionString = "" THEN {}
    ELSE {p.ResourceName : p \in
            {q \in Expressions(m[T].ConnectionString) :
               /\ q.ResourceName \in DOMAIN kinds
               /\ kinds[q.ResourceName] # KindParameter
               /\ \/ q.PropertyPath = <<"connectionString">>
                  \/ /\ ~(Len(q.PropertyPath) >= 3 /\ q.PropertyPath[1] = "bindings")
                     /\ kinds[q.ResourceName] = KindValueResource}}

RECURSIVE descendants(_, _, _, _)
descendants(m, kinds, frontier, seen) ==
    LET next == UNION {descents(m, kinds, n) : n \in frontier \cap DOMAIN m}
    IN IF next \subseteq seen THEN seen ELSE descendants(m, kinds, next \ seen, seen \cup next)

\* C24: expression resolution terminates on every manifest that passed cycle
\* detection: every recursive descent of resolveConnectionString and
\* resolveValueReference follows an edge of the graph detectCircularReferences
\* checked, no resource is reached from itself by descents, and the
\* resolution stage has an outcome.
C24_ResolutionTerminates ==
    cyclesChecked =>
        LET kinds == classifiedKinds(manifest, config.resourceOverrides)
        IN /\ \A T \in DOMAIN manifest :
                /\ descents(manifest, kinds, T) \subseteq depsOf(buildDeps(manifest), T)
                /\ T \notin descendants(manifest, kinds, {T}, {})
           /\ pc = "resolveExpressions" => resolveExpressions(resources, context) # {}

\* a resolved env value that took a descent: a reads {b.value}, the value
\* resource b holds {a.connectionString}
C24_Witness ==
    /\ emitted
    /\ DOMAIN manifest = {"a", "b"}
    /\ manifest["a"].Env = EnvK("{b.value}")
    /\ kindMap["b"] = KindValueResource
    /\ descents(manifest, kindMap, "b") = {"a"}
    /\ resources["a"].Env["K"].Value = "http://a:0"

-----------------------------------------------------------------------------
(* Inlined values *)

resourceSections == {"portable", "container", "gateway"}

\* C25: a resource of the inlined-value kind never materializes: it is not
\* among the mapped resources, the document declares no resource for it and
\* the result summary does not list it; a consumer's {V.connectionString} is
\* replaced in place by V's template resolved in V's context, so that a chain
\* consumer -> V -> backing service puts the backing service's symbolic
\* reference into the consumer's env value.
C25_ValueResourceInlined ==
    emitted =>
        \A V \in DOMAIN kindMap :
            kindMap[V] = KindValueResource =>
                /\ V \notin DOMAIN resources
                /\ \A i \in DOMAIN result.Bicep :
                     result.Bicep[i].section \in resourceSections => result.Bicep[i].name # V
                /\ \A i \in DOMAIN result.Resources : result.Resources[i].OriginalName # V
                /\ \A C \in DOMAIN manifest : \A K \in DOMAIN manifest[C].Env :
                     (/\ kindMap[C] = KindContainer
                      /\ manifest[C].Env[K] = "{" \o V \o ".connectionString}"
                      /\ manifest[V].ConnectionString # "") =>
                        /\ resources[C].Env[K].Value \in
                             {r.value : r \in resolveCompositeValue(
                                 parseExpressions(manifest[V].ConnectionString), V, context)}
                        /\ \A B \in DOMAIN kindMap :
                             (/\ manifest[V].ConnectionString = "{" \o B \o ".connectionString}"
                              /\ IsPortableResource(kindMap[B])) =>
                                resources[C].Env[K].Value = "${" \o sanitize(B) \o ".id}"

\* the chain c-d -> b -> a with b a value resource and a a Redis cache
C25_Witness ==
    /\ emitted
    /\ manifest = valueChain
    /\ kindMap["b"] = KindValueResource
    /\ IsPortableResource(kindMap["a"])
    /\ "b" \notin DOMAIN resources
    /\ resources["c-d"].Env["K"].Value = "${a.id}"

-----------------------------------------------------------------------------
(* Every classified resource is emitted *)

\* C28: after a successful Translate with a rendered document, every
\* manifest resource classified as a container or as a backing-service kind
\* is declared exactly once in the document and listed exactly once in the
\* result summary, under its sanitized identifier and with its manifest name
\* as runtime name, whatever its name and whether or not a Gateway is
\* synthesized.
C28_ClassifiedResourceEmittedOnce ==
    emitted =>
        \A n \in DOMAIN kindMap :
            (kindMap[n] = KindContainer \/ IsPortableResource(kindMap[n])) =>
                /\ Cardinality({i \in DOMAIN result.Bicep :
                                  /\ result.Bicep[i].section \in {"portable", "container"}
                                  /\ result.Bicep[i].ident = sanitize(n)
                                  /\ result.Bicep[i].name = n}) = 1
                /\ Cardinality({i \in DOMAIN result.Resources :
                                  /\ result.Resources[i].OriginalName = n
                                  /\ result.Resources[i].BicepIdentifier = sanitize(n)
                                  /\ result.Resources[i].Kind = kindMap[n]
                                  /\ ~result.Resources[i].Synthesized}) = 1

-----------------------------------------------------------------------------
(* Producer-errored resources *)

\* the entry carries the publisher's error and no type
isProducerErrored(object) ==
    "Error" \in DOMAIN object /\ object.Error # "" /\ object.Type = ""

\* C22: on a readable, well-formed file the parser Translate uses fails with
\* a missing-required-field error exactly when the resources collection is
\* absent or some resource that is not marked as producer-errored lacks its
\* type; a producer-errored resource does not make parsing fail and is left
\* out of classification.
C22_ProducerErroredSkipped ==
    (Len(trace) >= 1 /\ file.exists /\ file.wellFormed) =>
        LET lacking == {n \in DOMAIN file.Resources :
                          /\ ~isProducerErrored(file.Resources[n])
                          /\ file.Resources[n].Type = ""}
            errored == {n \in DOMAIN file.Resources : isProducerErrored(file.Resources[n])}
        IN /\ (pc = "done" /\ Len(trace) = 1 /\ err.kind = "MissingRequiredField")
                <=> (~file.hasResources \/ lacking # {})
           /\ Len(trace) >= 4 => DOMAIN kindMap = DOMAIN file.Resources \ errored

-----------------------------------------------------------------------------
(* Concurrent invocations *)

\* C21: concurrent Translate invocations on distinct inputs are independent:
\* no two calls hold the same translation context, and under every
\* interleaving a finished call returns an error and a document that
\* Translate can return for its file and options when run alone.
C21_ConcurrentCallsIndependent ==
    /\ \A i, j \in DOMAIN calls :
         (i # j /\ calls[i].ctx # 0 /\ calls[j].ctx # 0) => calls[i].ctx # calls[j].ctx
    /\ \A i \in DOMAIN calls :
         calls[i].pc = "done" =>
            \E o \in translateOutcomes(calls[i].file, calls[i].opts) :
                /\ o.err = calls[i].err
                /\ o.bicep = calls[i].result.Bicep

\* two finished calls: one translated the value chain, the other failed on
\* colliding names
C21_Witness ==
    /\ DOMAIN calls = CallIds
    /\ calls[1].pc = "done"
    /\ calls[2].pc = "done"
    /\ calls[1].file.Resources = valueChain
    /\ ~calls[1].result.isNil
    /\ Len(calls[1].result.Bicep) > 0
    /\ calls[2].file.Resources = collidingNames
    /\ calls[2].err.kind = "IdentifierCollision"

-----------------------------------------------------------------------------
(* Package convert: symbolic names and connections *)

\* the symbolic names a BicepFile declares for the application, the
\* containers, the data stores and the gateways
symbolicNames(f) ==
    <<"app">>
    \o [i \in DOMAIN f.Containers |-> f.Containers[i].SymbolicName]
    \o [i \in DOMAIN f.DataStores |-> f.DataStores[i].SymbolicName]
    \o [i \in DOMAIN f.Gateways |-> f.Gateways[i].SymbolicName]

\* C26: in the BicepFile MapManifest returns, the symbolic names of the
\* application, the containers, the data stores and the gateways are
\* pairwise distinct, also for a container named app and for a container
\* whose sanitized name is another container's name followed by Gateway.
C26_SymbolicNamesDistinct ==
    convPc = "done" =>
        LET syms == symbolicNames(convFile)
        IN \A i, j \in DOMAIN syms : i # j => syms[i] # syms[j]

\* C30: in the BicepFile MapManifest returns, the source of every connection
\* is <sym>.id for a symbolic name a container or data store of the same
\* file declares; a skipped resource (error field set, or build.buildOnly)
\* or an unsupported one is never a connection target, and no container is
\* connected to itself or to a parameter.
C30_ConnectionsReferToDeclaredResources ==
    convPc = "done" =>
        \A i \in DOMAIN convFile.Containers :
            \A T \in DOMAIN convFile.Containers[i].Connections :
                /\ \E sym \in {convFile.Containers[j].SymbolicName : j \in DOMAIN convFile.Containers}
                          \cup {convFile.DataStores[j].SymbolicName : j \in DOMAIN convFile.DataStores} :
                      convFile.Containers[i].Connections[T].Source = sym \o ".id"
                /\ T \in DOMAIN convManifest
                /\ ~isSkipped(convManifest[T])
                /\ LookupResourceType(convManifest[T].Type).Category
                     \in {categoryContainer, categoryDataStore}
                /\ T # convFile.Containers[i].Name

====
